---- MODULE Spec2Model ----
(***************************************************************************)
(* Verification model of the neuromorphic e-nose SNN accelerator stack:    *)
(*   - src/fpga/regs.py, src/fpga/fpga_emulator.py  (register/stream       *)
(*     protocol emulator, FPGAEmulator)                                    *)
(*   - src/models/golden_inference_float.py  (float reference engine)      *)
(*   - scripts/gen_snn_test_vectors.py, src/models/golden_inference.py     *)
(*     (fixed-point engines)                                               *)
(*                                                                         *)
(* Float values of the reference engine are dyadic rationals in the model: *)
(* a float f is held as the integer f * One.  Every value the model        *)
(* produces has at most FracBits fractional bits and a handful of integer  *)
(* bits, so the float32 arithmetic of the source is exact on it.           *)
(***************************************************************************)
EXTENDS Integers, Sequences, FiniteSets, TLC

\* ------------------------------------------------------------------ bounds
\* longest stream FIFO the model lets the host build up
MaxBuf == 3
\* longest array handed to one stream_send_masks call
MaxSend == 2
\* longest spike window handed to the fixed-point engines
MaxT == 3
\* largest per-class count of the count vectors handed to the class pick
MaxCount == 3

\* ------------------------------------------------------ src/fpga/regs.py
CONTROL == 0
STATUS == 4
WINDOW_LEN == 8
N_IN == 12
N_HIDDEN == 16
N_OUT == 20
RESULT_CLASS == 24
COUNT0 == 28
COUNT1 == 32
COUNT2 == 36
CONF_Q15 == 40
LATENCY_CYCLES == 44

CTRL_START == 1
CTRL_RESET == 2
CTRL_INTEN == 4

STS_DONE == 1
STS_BUSY == 2
STS_ERR == 4

\* ------------------------------------------------------------- arithmetic
RECURSIVE Pow2(_)
Pow2(n) == IF n = 0 THEN 1 ELSE 2 * Pow2(n - 1)

\* (v >> i) & 1
Bit(v, i) == (v \div Pow2(i)) % 2

\* v & m for a one-bit mask m = 1 << i: non-zero iff bit i of v is set
BitTest(v, m) == (v \div m) % 2 = 1

\* int(value) & 0xFFFFFFFF, computed on the two 16-bit halves of the word
Mask32(value) == ((value \div 65536) % 65536) * 65536 + (value % 65536)

Min(a, b) == IF a < b THEN a ELSE b
Max(a, b) == IF a > b THEN a ELSE b

\* Python None
None == <<>>

\* "x = v; F(x)": v is evaluated once and F sees its value
Bind(v, F(_)) == CHOOSE y \in {F(x) : x \in {v}} : TRUE

\* ------------------------------------------------- float representation
\* fractional bits of the dyadic representation: two for the weight scale
\* and one per leak step of the longest frame
FracBits == 2 + MaxBuf
\* the float 1.0
One == Pow2(FracBits)

\* ------------------------------- src/models/golden_inference_float.py
\* a shift_to_alpha that returns the leaked share 1/2^max(1, shift)
shift_to_alpha_complement(shift) ==
    LET s == Max(1, shift)
    IN  [num |-> 1, den |-> Pow2(s)]

\* shift_to_alpha: alpha = 1 - 1/2^max(1, shift), kept as a fraction
shift_to_alpha(shift) ==
    LET s == Max(1, shift)
    IN  [num |-> Pow2(s) - 1, den |-> Pow2(s)]

\* alpha * v in float32 (exact on the model's values)
FMul(alpha, v) == (alpha.num * v) \div alpha.den

\* x @ W for a vector x over 0..n-1 and a matrix W[i][j]: column j
RECURSIVE Dot(_, _, _, _)
Dot(x, W, j, n) ==
    IF n = 0 THEN 0
    ELSE Dot(x, W, j, n - 1) + x[n - 1] * W[n - 1][j]

\* np.argmax: scan keeping the first strictly greater element
RECURSIVE ArgmaxScan(_, _, _, _)
ArgmaxScan(v, n, i, best) ==
    IF i >= n THEN best
    ELSE Bind(IF v[i] > v[best] THEN i ELSE best,
              LAMBDA b : ArgmaxScan(v, n, i + 1, b))

\* an argmax that keeps the last of several largest elements
RECURSIVE ArgmaxLastScan(_, _, _, _)
ArgmaxLastScan(v, n, i, best) ==
    IF i >= n THEN best
    ELSE Bind(IF v[i] >= v[best] THEN i ELSE best,
              LAMBDA b : ArgmaxLastScan(v, n, i + 1, b))

np_argmax_last(v, n) == ArgmaxLastScan(v, n, 1, 0)

\* np.argmax over v[0..n-1]
np_argmax(v, n) == ArgmaxScan(v, n, 1, 0)

\* one timestep of infer_counts (loop body, lines 46-55)
infer_step(st, xt, w, p) ==
    LET alpha_h == shift_to_alpha(p.leak_h_shift)
        alpha_o == shift_to_alpha(p.leak_o_shift)
        Hid == 0 .. (p.n_hidden - 1)
        Out == 0 .. (p.n_out - 1)
    IN  Bind([n \in Hid |->
                FMul(alpha_h, st.vh[n]) + Dot(xt, w.W1, n, p.n_in)],
          LAMBDA vh1 :
        Bind([n \in Hid |-> IF vh1[n] >= p.th_h THEN 1 ELSE 0],
          LAMBDA sh :
        Bind([c \in Out |->
                FMul(alpha_o, st.vo[c]) + Dot(sh, w.W2, c, p.n_hidden)],
          LAMBDA vo1 :
        Bind([c \in Out |-> IF vo1[c] >= p.th_o THEN 1 ELSE 0],
          LAMBDA so :
            [vh |-> [n \in Hid |-> vh1[n] * (1 - sh[n])],
             vo |-> [c \in Out |-> vo1[c] * (1 - so[c])],
             counts |-> [c \in Out |-> st.counts[c] + so[c]]]))))

\* the loop "for t in range(T)" of infer_counts, from the state st
RECURSIVE infer_loop(_, _, _, _, _)
infer_loop(st, x_spk, w, p, t) ==
    IF t = 0 THEN st
    ELSE Bind(infer_loop(st, x_spk, w, p, t - 1),
              LAMBDA prev : infer_step(prev, x_spk[t], w, p))

RECURSIVE SumTo(_, _)
SumTo(v, n) == IF n = 0 THEN 0 ELSE SumTo(v, n - 1) + v[n - 1]

\* infer_counts, lines 57-59: class, confidence and counts from the counts
infer_result(counts, n_out) ==
    Bind(np_argmax(counts, n_out), LAMBDA cls :
    Bind(SumTo(counts, n_out), LAMBDA total :
        [cls |-> cls,
         conf |-> IF total = 0 THEN [num |-> 0, den |-> 1]
                  ELSE [num |-> counts[cls], den |-> total],
         counts |-> counts]))

\* infer_counts: x_spk is the sequence of the frame's spike vectors.
\* conf is returned as the fraction num/den (0 when no output neuron fired:
\* counts[cls] / 1e-6 = 0).
infer_counts(x_spk, w, p) ==
    LET T == Min(Len(x_spk), p.window_len)
        st0 == [vh |-> [n \in 0 .. (p.n_hidden - 1) |-> 0],
                vo |-> [c \in 0 .. (p.n_out - 1) |-> 0],
                counts |-> [c \in 0 .. (p.n_out - 1) |-> 0]]
    IN  Bind(infer_loop(st0, x_spk, w, p, T).counts,
             LAMBDA counts : infer_result(counts, p.n_out))

\* ------------------------------------------- src/fpga/fpga_emulator.py
\* __mask_to_spikes: x[i] = 1.0 if (mask >> i) & 1 else 0.0
_mask_to_spikes(mask, n_in) == [i \in 0 .. (n_in - 1) |-> Bit(mask, i)]

\* EmulatorConfig handed to the constructor
cfg == [n_in |-> 12, n_hidden |-> 2, n_out |-> 3, window_len |-> 2,
        leak_h_shift |-> 1, leak_o_shift |-> 0, th_h |-> One, th_o |-> One]

\* exports directories the host can load: int8 matrices and their scales
\* (the scale 0.25 is held as One / 4)
W1_q_a == << <<4, 0>>, <<0, 3>>, <<-4, 4>>, <<1, 1>>, <<0, 0>>, <<0, 0>>,
             <<0, 0>>, <<0, 0>>, <<0, 0>>, <<0, 0>>, <<0, 0>>, <<0, 0>> >>
W2_q_a == << <<3, 0, 1>>, <<0, 4, 2>> >>

ExportsDirs == { [W1_q |-> W1_q_a, W2_q |-> W2_q_a,
                  w1_scale |-> One \div 4, w2_scale |-> One \div 4] }

\* load_weights_from_exports: W = Wq.astype(float32) * scale
load_weights_from_exports(exports_dir) ==
    [W1 |-> [i \in 0 .. (Len(exports_dir.W1_q) - 1) |->
               [j \in 0 .. (Len(exports_dir.W1_q[1]) - 1) |->
                  exports_dir.W1_q[i + 1][j + 1] * exports_dir.w1_scale]],
     W2 |-> [i \in 0 .. (Len(exports_dir.W2_q) - 1) |->
               [j \in 0 .. (Len(exports_dir.W2_q[1]) - 1) |->
                  exports_dir.W2_q[i + 1][j + 1] * exports_dir.w2_scale]]]

\* self._regs[offset] = value (a dict store: adds the key when missing)
SetReg(r, offset, value) ==
    IF offset \in DOMAIN r THEN [r EXCEPT ![offset] = value]
    ELSE [o \in (DOMAIN r) \cup {offset} |->
            IF o = offset THEN value ELSE r[o]]

\* the register file built by __init__ (lines 67-75)
InitRegs ==
    LET z == [k \in {CONTROL, STATUS, WINDOW_LEN, N_IN, N_HIDDEN, N_OUT,
                     RESULT_CLASS, COUNT0, COUNT1, COUNT2, CONF_Q15,
                     LATENCY_CYCLES} |-> 0]
    IN  SetReg(SetReg(SetReg(SetReg(z, WINDOW_LEN, cfg.window_len),
                             N_IN, cfg.n_in), N_HIDDEN, cfg.n_hidden),
               N_OUT, cfg.n_out)

\* Python round() of the fraction num/den >= 0: round half to even
RoundHalfEven(num, den) ==
    LET q == num \div den
        r == num % den
    IN  IF 2 * r < den THEN q
        ELSE IF 2 * r > den THEN q + 1
        ELSE IF q % 2 = 0 THEN q ELSE q + 1

\* np.clip(v, lo, hi)
Clip(v, lo, hi) == IF v < lo THEN lo ELSE IF v > hi THEN hi ELSE v

\* reset that also clears the frame length
reset_clears_window_len(self) ==
    [self EXCEPT
       !.regs = [self.regs EXCEPT ![STATUS] = 0, ![RESULT_CLASS] = 0,
                                  ![COUNT0] = 0, ![COUNT1] = 0, ![COUNT2] = 0,
                                  ![CONF_Q15] = 0, ![LATENCY_CYCLES] = 0,
                                  ![WINDOW_LEN] = 0],
       !.stream_buf = <<>>]

\* reset that forgets to drop the queued stream words
reset_keeps_fifo(self) ==
    [self EXCEPT
       !.regs = [self.regs EXCEPT ![STATUS] = 0, ![RESULT_CLASS] = 0,
                                  ![COUNT0] = 0, ![COUNT1] = 0, ![COUNT2] = 0,
                                  ![CONF_Q15] = 0, ![LATENCY_CYCLES] = 0]]

\* FPGAEmulator.reset
reset(self) ==
    [self EXCEPT
       !.stream_buf = <<>>,
       !.regs = SetReg(SetReg(SetReg(SetReg(SetReg(SetReg(SetReg(self.regs,
                  STATUS, 0), RESULT_CLASS, 0), COUNT0, 0), COUNT1, 0),
                  COUNT2, 0), CONF_Q15, 0), LATENCY_CYCLES, 0)]

\* a frame run that adds its counts to the counts already in the registers
run_frame_accumulates(self, frame, rest) ==
    LET Texp == self.regs[WINDOW_LEN]
        busy == SetReg(self.regs, STATUS, STS_BUSY)
    IN  IF Len(frame) = 0
        THEN \* np.stack([]) raises ValueError with STATUS left at BUSY
             [self EXCEPT !.stream_buf = rest, !.regs = busy,
                          !.raised = "ValueError"]
        ELSE
        LET x == [t \in 1 .. Len(frame) |->
                    _mask_to_spikes(frame[t], cfg.n_in)]
            p == [n_in |-> cfg.n_in, n_hidden |-> cfg.n_hidden,
                  n_out |-> cfg.n_out, window_len |-> Texp,
                  leak_h_shift |-> cfg.leak_h_shift,
                  leak_o_shift |-> cfg.leak_o_shift,
                  th_h |-> cfg.th_h, th_o |-> cfg.th_o]
            w == [W1 |-> self.W1, W2 |-> self.W2]
        IN  Bind(infer_counts(x, w, p), LAMBDA res :
            LET q15 == Clip(RoundHalfEven(res.conf.num * 32768,
                                          res.conf.den), 0, 32767)
                r1 == SetReg(busy, RESULT_CLASS, res.cls)
                r2 == SetReg(r1, COUNT0, self.regs[COUNT0] + res.counts[0])
                r3 == SetReg(r2, COUNT1, self.regs[COUNT1] + res.counts[1])
                r4 == SetReg(r3, COUNT2, self.regs[COUNT2] + res.counts[2])
                r5 == SetReg(r4, CONF_Q15, q15)
                r6 == SetReg(r5, LATENCY_CYCLES,
                             Texp * (cfg.n_hidden + cfg.n_out))
            IN  [self EXCEPT !.stream_buf = rest,
                             !.regs = SetReg(r6, STATUS, STS_DONE)])

\* _start_inference, lines 151-182: the inference over the dequeued frame
\* (rest is what stays queued)
run_frame(self, frame, rest) ==
    LET Texp == self.regs[WINDOW_LEN]
        busy == SetReg(self.regs, STATUS, STS_BUSY)
    IN  IF Len(frame) = 0
        THEN \* np.stack([]) raises ValueError with STATUS left at BUSY
             [self EXCEPT !.stream_buf = rest, !.regs = busy,
                          !.raised = "ValueError"]
        ELSE
        LET x == [t \in 1 .. Len(frame) |->
                    _mask_to_spikes(frame[t], cfg.n_in)]
            p == [n_in |-> cfg.n_in, n_hidden |-> cfg.n_hidden,
                  n_out |-> cfg.n_out, window_len |-> Texp,
                  leak_h_shift |-> cfg.leak_h_shift,
                  leak_o_shift |-> cfg.leak_o_shift,
                  th_h |-> cfg.th_h, th_o |-> cfg.th_o]
            w == [W1 |-> self.W1, W2 |-> self.W2]
        IN  Bind(infer_counts(x, w, p), LAMBDA res :
            LET q15 == Clip(RoundHalfEven(res.conf.num * 32768,
                                          res.conf.den), 0, 32767)
                r1 == SetReg(busy, RESULT_CLASS, res.cls)
                r2 == SetReg(r1, COUNT0, res.counts[0])
                r3 == SetReg(r2, COUNT1, res.counts[1])
                r4 == SetReg(r3, COUNT2, res.counts[2])
                r5 == SetReg(r4, CONF_Q15, q15)
                r6 == SetReg(r5, LATENCY_CYCLES,
                             Texp * (cfg.n_hidden + cfg.n_out))
            IN  [self EXCEPT !.stream_buf = rest,
                             !.regs = SetReg(r6, STATUS, STS_DONE)])

\* _start_inference that drops the whole FIFO once a frame was taken
_start_inference_drains(self) ==
    IF self.W1 = None \/ self.W2 = None
    THEN [self EXCEPT !.regs = SetReg(self.regs, STATUS, STS_ERR)]
    ELSE
    LET Texp == self.regs[WINDOW_LEN]
    IN  IF Len(self.stream_buf) < Texp
        THEN [self EXCEPT !.regs = SetReg(self.regs, STATUS, STS_ERR)]
        ELSE run_frame(self, SubSeq(self.stream_buf, 1, Texp), <<>>)

\* _start_inference that clears the result registers when it reports ERR
_start_inference_err_clears(self) ==
    LET err == [self.regs EXCEPT ![STATUS] = STS_ERR, ![RESULT_CLASS] = 0,
                                 ![COUNT0] = 0, ![COUNT1] = 0, ![COUNT2] = 0,
                                 ![CONF_Q15] = 0]
    IN  IF self.W1 = None \/ self.W2 = None
        THEN [self EXCEPT !.regs = err]
        ELSE
        LET Texp == self.regs[WINDOW_LEN]
        IN  IF Len(self.stream_buf) < Texp
            THEN [self EXCEPT !.regs = err]
            ELSE run_frame(self, SubSeq(self.stream_buf, 1, Texp),
                           SubSeq(self.stream_buf, Texp + 1,
                                  Len(self.stream_buf)))

\* _start_inference that drops the queued words when it reports ERR
_start_inference_err_flushes(self) ==
    LET err == [self EXCEPT !.regs = SetReg(self.regs, STATUS, STS_ERR),
                            !.stream_buf = <<>>]
    IN  IF self.W1 = None \/ self.W2 = None
        THEN err
        ELSE
        LET Texp == self.regs[WINDOW_LEN]
        IN  IF Len(self.stream_buf) < Texp
            THEN err
            ELSE run_frame(self, SubSeq(self.stream_buf, 1, Texp),
                           SubSeq(self.stream_buf, Texp + 1,
                                  Len(self.stream_buf)))

\* FPGAEmulator._start_inference
_start_inference(self) ==
    IF self.W1 = None \/ self.W2 = None
    THEN [self EXCEPT !.regs = SetReg(self.regs, STATUS, STS_ERR)]
    ELSE
    LET Texp == self.regs[WINDOW_LEN]
    IN  IF Len(self.stream_buf) < Texp
        THEN [self EXCEPT !.regs = SetReg(self.regs, STATUS, STS_ERR)]
        ELSE run_frame(self, SubSeq(self.stream_buf, 1, Texp),
                       SubSeq(self.stream_buf, Texp + 1,
                              Len(self.stream_buf)))

\* write_reg that handles START before RESET
write_reg_start_first(self, offset, value) ==
    LET v == Mask32(value)
    IN  IF offset = CONTROL
        THEN Bind(IF BitTest(v, CTRL_START) THEN _start_inference(self)
                  ELSE self,
               LAMBDA s1 :
             Bind(IF s1.raised = "none" /\ BitTest(v, CTRL_RESET)
                  THEN reset(s1) ELSE s1,
               LAMBDA s2 :
                 IF s2.raised # "none" THEN s2
                 ELSE [s2 EXCEPT !.regs = SetReg(s2.regs, offset, v)]))
        ELSE [self EXCEPT !.regs = SetReg(self.regs, offset, v)]

\* FPGAEmulator.write_reg
write_reg(self, offset, value) ==
    LET v == Mask32(value)
    IN  IF offset = CONTROL
        THEN Bind(IF BitTest(v, CTRL_RESET) THEN reset(self) ELSE self,
               LAMBDA s1 :
             Bind(IF BitTest(v, CTRL_START) THEN _start_inference(s1) ELSE s1,
               LAMBDA s2 :
                 IF s2.raised # "none" THEN s2
                 ELSE [s2 EXCEPT !.regs = SetReg(s2.regs, offset, v)]))
        ELSE IF offset = WINDOW_LEN
        THEN [self EXCEPT !.regs = SetReg(self.regs, offset, v)]
        ELSE [self EXCEPT !.regs = SetReg(self.regs, offset, v)]

\* read_reg written with dict.setdefault: a read adds the missing key
read_reg_setdefault(self, offset) ==
    [ret |-> IF offset \in DOMAIN self.regs THEN self.regs[offset] ELSE 0,
     self |-> IF offset \in DOMAIN self.regs THEN self
              ELSE [self EXCEPT !.regs = SetReg(self.regs, offset, 0)]]

\* FPGAEmulator.read_reg: the returned value and the emulator afterwards
read_reg(self, offset) ==
    [ret |-> IF offset \in DOMAIN self.regs THEN self.regs[offset] ELSE 0,
     self |-> self]

\* stream_send_masks that starts a new frame: STATUS goes back to IDLE
stream_send_masks_idle(self, masks) ==
    [self EXCEPT !.stream_buf =
                    self.stream_buf \o [i \in 1 .. Len(masks) |-> Mask32(masks[i])],
                 !.regs = SetReg(self.regs, STATUS, 0)]

\* FPGAEmulator.stream_send_masks: np.asarray(masks, uint32), then append
stream_send_masks(self, masks) ==
    [self EXCEPT !.stream_buf =
        self.stream_buf \o [i \in 1 .. Len(masks) |-> Mask32(masks[i])]]

\* FPGAEmulator.load_exports
load_exports(self, exports_dir) ==
    LET lw == load_weights_from_exports(exports_dir)
    IN  [self EXCEPT !.W1 = lw.W1, !.W2 = lw.W2]

\* -------------------------------------------- src/fpga/overlay_driver.py
\* spikes_to_masks that puts channel i at bit 11 - i
RECURSIVE row_mask_reversed(_, _)
row_mask_reversed(x_t, k) ==
    IF k = 0 THEN 0
    ELSE Bind(row_mask_reversed(x_t, k - 1), LAMBDA m :
           IF x_t[k - 1] # 0 /\ Bit(m, 12 - k) = 0
           THEN m + Pow2(12 - k) ELSE m)

spikes_to_masks_reversed(x) ==
    [t \in 1 .. Len(x) |-> row_mask_reversed(x[t], 12)]

\* lines 49-52: m |= (1 << i) for every channel i < k with x_spk[t, i] set
RECURSIVE row_mask(_, _)
row_mask(x_t, k) ==
    IF k = 0 THEN 0
    ELSE Bind(row_mask(x_t, k - 1), LAMBDA m :
           IF x_t[k - 1] # 0 /\ Bit(m, k - 1) = 0
           THEN m + Pow2(k - 1) ELSE m)

\* SNNOverlayDriver.spikes_to_masks: x is the sequence of the T rows, each
\* a 0/1 vector over the 12 channels
spikes_to_masks(x) == [t \in 1 .. Len(x) |-> row_mask(x[t], 12)]

\* SNNOverlayDriver.set_window_len, on the backend
set_window_len(self, window_len) ==
    write_reg(self, WINDOW_LEN, Mask32(window_len))

\* SNNOverlayDriver.reset, on the backend
driver_reset(self) == write_reg(self, CONTROL, CTRL_RESET)

\* SNNOverlayDriver.__init__: the backend it leaves
driver_init(exports_dir, window_len) ==
    driver_reset(
      set_window_len(
        load_exports([regs |-> InitRegs, stream_buf |-> <<>>, W1 |-> None,
                      W2 |-> None, raised |-> "none"], exports_dir),
        window_len))

\* SNNOverlayDriver.infer_from_masks: the backend afterwards and the
\* InferenceResult returned (conf = q15 / 32768 is held as that fraction);
\* raised is "RuntimeError" when STATUS has ERR
infer_from_masks(self, masks) ==
    Bind(stream_send_masks(self, masks), LAMBDA b1 :
    Bind(write_reg(b1, CONTROL, CTRL_START), LAMBDA b2 :
      IF b2.raised # "none" THEN [self |-> b2, ret |-> None]
      ELSE IF BitTest(read_reg(b2, STATUS).ret, STS_ERR)
      THEN [self |-> [b2 EXCEPT !.raised = "RuntimeError"], ret |-> None]
      ELSE [self |-> b2,
            ret |-> [pred_class |-> read_reg(b2, RESULT_CLASS).ret,
                     counts |-> << read_reg(b2, COUNT0).ret,
                                   read_reg(b2, COUNT1).ret,
                                   read_reg(b2, COUNT2).ret >>,
                     conf |-> [num |-> read_reg(b2, CONF_Q15).ret,
                               den |-> 32768]]]))

\* ------------------------------------------ notebooks/06_test_overlay0.py
\* line 30: timeout = 100000
PollTimeout == 100000

\* a harness that warns when the loop was left by break
warns_on_break(timeout) == timeout > 0

\* line 33: (status & 0x1) == 0x1
done_bit(status) == BitTest(status, 1)

\* line 37: if timeout == 0, the warning is printed
warns(timeout) == timeout = 0

\* line 41-44: the offsets read after the loop
ReadAfterPoll == <<4, 24, 48, 52>>

\* ------------------------------------ scripts/gen_snn_test_vectors.py
\* np.int16(x) of a 32-bit x: two's-complement narrowing
Int16(x) == ((x + 32768) % 65536) - 32768

\* asr16 rounding toward zero
asr16_truncating(v, shift) ==
    IF v >= 0 THEN Int16(v \div Pow2(shift))
    ELSE Int16(0 - ((0 - v) \div Pow2(shift)))

\* asr16: np.int16(np.int32(v) >> shift), the same in both branches
asr16(v, shift) ==
    IF v >= 0 THEN Int16(v \div Pow2(shift))
    ELSE Int16(v \div Pow2(shift))

\* hidden_input with the channel test inverted
RECURSIVE hidden_input_inverted(_, _, _, _)
hidden_input_inverted(mask, W1q, n, k) ==
    IF k = 0 THEN 0
    ELSE Bind(hidden_input_inverted(mask, W1q, n, k - 1), LAMBDA acc :
           IF Bit(mask, k - 1) = 0
           THEN Int16(acc + W1q[k][n + 1]) ELSE acc)

\* lines 86-91 for hidden neuron n: the weights W1[ch, n] of the channels
\* ch < k set in mask, added one by one through int16
RECURSIVE hidden_input(_, _, _, _)
hidden_input(mask, W1q, n, k) ==
    IF k = 0 THEN 0
    ELSE Bind(hidden_input(mask, W1q, n, k - 1), LAMBDA acc :
           IF Bit(mask, k - 1) = 1
           THEN Int16(acc + W1q[k][n + 1]) ELSE acc)

\* an output layer that does not see the hidden spikes of its timestep
output_input_none(h_spikes, W2q, c, k) == 0

\* lines 124-128 for output neuron c: the weights W2[hn, c] of the hidden
\* neurons hn < k that spiked
RECURSIVE output_input(_, _, _, _)
output_input(h_spikes, W2q, c, k) ==
    IF k = 0 THEN 0
    ELSE Bind(output_input(h_spikes, W2q, c, k - 1), LAMBDA acc :
           IF h_spikes[k - 1] = 1
           THEN Int16(acc + W2q[k][c + 1]) ELSE acc)

\* lines 93-102: leak and accumulate through int16
leak_accumulate(v, shift, inp) ==
    Int16(Int16(v - asr16(v, shift)) + inp)

\* snn_infer_int, lines 62-68: the state a call starts from
snn_init(pp) ==
    [Vh |-> [n \in 0 .. (pp.n_hidden - 1) |-> 0],
     Vo |-> [c \in 0 .. (pp.n_out - 1) |-> 0],
     Cout |-> [c \in 0 .. (pp.n_out - 1) |-> 0]]

\* a neuron that keeps its integrated value when it fires
no_reset(spike, v_new) == v_new

\* a counter that grows by two for every spike
count_twice(cnt, spike) == cnt + 2 * spike

\* lines 110-111, 147-148: the neuron fires when v_new >= threshold
fire(v_new, th) == IF v_new >= th THEN 1 ELSE 0

\* lines 112-114, 150-152: the potential stored at the end of the timestep
hard_reset(spike, v_new) == IF spike = 1 THEN 0 ELSE v_new

\* line 149: Cout[on] += 1 when the output neuron fired
count_spike(cnt, spike) == cnt + spike

\* snn_infer_int, lines 81-152: one timestep on the state st; the locals
\* Vh_new, h_spikes, Vo_new, o_spikes of the timestep are returned with it
snn_timestep(st, mask_t, W1q, W2q, pp) ==
    LET mask == mask_t % 4096
        Hid == 0 .. (pp.n_hidden - 1)
        Out == 0 .. (pp.n_out - 1)
    IN  Bind([n \in Hid |->
                leak_accumulate(st.Vh[n], pp.leak_h_shift,
                                hidden_input(mask, W1q, n, pp.n_in))],
          LAMBDA Vh_new :
        Bind([n \in Hid |-> fire(Vh_new[n], pp.th_h)],
          LAMBDA h_spikes :
        Bind([c \in Out |->
                leak_accumulate(st.Vo[c], pp.leak_o_shift,
                                output_input(h_spikes, W2q, c, pp.n_hidden))],
          LAMBDA Vo_new :
        Bind([c \in Out |-> fire(Vo_new[c], pp.th_o)],
          LAMBDA o_spikes :
            [Vh |-> [n \in Hid |-> hard_reset(h_spikes[n], Vh_new[n])],
             Vo |-> [c \in Out |-> hard_reset(o_spikes[c], Vo_new[c])],
             Cout |-> [c \in Out |-> count_spike(st.Cout[c], o_spikes[c])],
             Vh_new |-> Vh_new, h_spikes |-> h_spikes,
             Vo_new |-> Vo_new, o_spikes |-> o_spikes]))))

\* --------------------------------------- src/models/golden_inference.py
\* lines 37-39: Ih[n] = sum of W1[src][n] over the first k events
RECURSIVE event_input(_, _, _, _)
event_input(ev, W1q, n, k) ==
    IF k = 0 THEN 0
    ELSE event_input(ev, W1q, n, k - 1) + W1q[ev[k] + 1][n + 1]

\* line 47: Io[c] = spikeH @ W2
RECURSIVE spike_dot(_, _, _, _)
spike_dot(spikeH, W2q, c, k) ==
    IF k = 0 THEN 0
    ELSE spike_dot(spikeH, W2q, c, k - 1) + spikeH[k - 1] * W2q[k][c + 1]

\* snn_infer_events, lines 36-51: one timestep (int32, no narrowing; the
\* model's values stay far inside the 32-bit range)
events_timestep(st, ev, W1q, W2q, pp) ==
    LET Hid == 0 .. (pp.Nh - 1)
        Out == 0 .. (pp.No - 1)
    IN  Bind([n \in Hid |->
                st.Vh[n] - (st.Vh[n] \div Pow2(pp.leak_h_shift))
                  + event_input(ev, W1q, n, Len(ev))],
          LAMBDA Vh1 :
        Bind([n \in Hid |-> IF Vh1[n] >= pp.th_h THEN 1 ELSE 0],
          LAMBDA spikeH :
        Bind([c \in Out |->
                st.Vo[c] - (st.Vo[c] \div Pow2(pp.leak_o_shift))
                  + spike_dot(spikeH, W2q, c, pp.Nh)],
          LAMBDA Vo1 :
        Bind([c \in Out |-> IF Vo1[c] >= pp.th_o THEN 1 ELSE 0],
          LAMBDA spikeO :
            [Vh |-> [n \in Hid |-> IF spikeH[n] = 1 THEN 0 ELSE Vh1[n]],
             Vo |-> [c \in Out |-> IF spikeO[c] = 1 THEN 0 ELSE Vo1[c]],
             Cout |-> [c \in Out |-> st.Cout[c] + spikeO[c]]]))))

RECURSIVE events_loop(_, _, _, _, _)
events_loop(events, W1q, W2q, pp, k) ==
    IF k = 0
    THEN [Vh |-> [n \in 0 .. (pp.Nh - 1) |-> 0],
          Vo |-> [c \in 0 .. (pp.No - 1) |-> 0],
          Cout |-> [c \in 0 .. (pp.No - 1) |-> 0]]
    ELSE Bind(events_loop(events, W1q, W2q, pp, k - 1),
              LAMBDA prev : events_timestep(prev, events[k], W1q, W2q, pp))

\* snn_infer_events: (cls, conf_q0_8, Cout)
snn_infer_events(events, weights, pp) ==
    Bind(events_loop(events, weights.W1, weights.W2, pp,
                     Min(Len(events), pp.window_len)).Cout,
      LAMBDA Cnt :
    Bind(np_argmax(Cnt, pp.No), LAMBDA cls :
        [cls |-> cls,
         conf_q0_8 |-> (Cnt[cls] * 256) \div Max(SumTo(Cnt, pp.No), 1),
         Cout |-> Cnt]))

\* ----------------------------------- scripts/step0_gen_fpga_artifacts.py
\* spikes_to_event_lists for one timestep: the channels ch < k whose spike
\* is set, in ascending order
RECURSIVE spikes_to_events(_, _)
spikes_to_events(x_t, k) ==
    IF k = 0 THEN <<>>
    ELSE IF x_t[k - 1] = 1
         THEN Append(spikes_to_events(x_t, k - 1), k - 1)
         ELSE spikes_to_events(x_t, k - 1)

\* ------------------------------------------------------------ host inputs
\* values the host writes to CONTROL: START, RESET, both, and RESET with
\* INTERRUPT_ENABLE
CtrlValues == {1, 2, 3, 6}
\* values the host writes to WINDOW_LEN
WindowLens == {0, 2, 3}
\* host writes to registers other than CONTROL and WINDOW_LEN
\* (48 = 0x30 is an offset outside the register map)
OtherWrites == {<<COUNT0, 7>>, <<CONF_Q15, 40000>>}
HostWrites == ({CONTROL} \X CtrlValues) \cup ({WINDOW_LEN} \X WindowLens)
              \cup OtherWrites
\* offsets the host reads
ReadOffsets == {STATUS, COUNT0, 48}
\* spike-mask words the host streams (4099 = 0x1003 has bit 12 set)
Words == {2, 4099}

\* ---------------------------------------------------------- engine inputs
\* spike masks handed to the engines (4097 = 0x1001 has bit 12 set)
EngineMasks == {0, 3, 4097}
\* int8 weight pairs [12, 2] and [2, 3]
W1_q_b == << <<6, 2>>, <<-3, 5>>, <<1, -1>>, <<0, 0>>, <<0, 0>>, <<0, 0>>,
             <<0, 0>>, <<0, 0>>, <<0, 0>>, <<0, 0>>, <<0, 0>>, <<0, 0>> >>
W2_q_b == << <<6, 0, 3>>, <<0, 7, 3>> >>
W1_q_c == << <<127, -128>>, <<127, 127>>, <<0, 0>>, <<0, 0>>, <<0, 0>>,
             <<0, 0>>, <<0, 0>>, <<0, 0>>, <<0, 0>>, <<0, 0>>, <<0, 0>>,
             <<0, 0>> >>
W2_q_c == << <<127, -128, 1>>, <<-128, 127, 1>> >>
WeightPairs == {[W1 |-> W1_q_b, W2 |-> W2_q_b], [W1 |-> W1_q_c, W2 |-> W2_q_c]}
\* thresholds and (hidden, output) leak shifts handed to the engines
ThValues == {0, 1, 6}
LeakShifts == {<<0, 0>>, <<1, 4>>, <<4, 1>>}
WindowLens2 == {2, 3}
\* IntSNNParams
IntParamSets ==
    {[n_in |-> 12, n_hidden |-> 2, n_out |-> 3, window_len |-> wl,
      leak_h_shift |-> ls[1], leak_o_shift |-> ls[2], th_h |-> a, th_o |-> b] :
       wl \in WindowLens2, ls \in LeakShifts, a \in ThValues, b \in ThValues}
\* the SNNParams with the same settings
SNNParams(pp) ==
    [Nh |-> pp.n_hidden, No |-> pp.n_out, leak_h_shift |-> pp.leak_h_shift,
     leak_o_shift |-> pp.leak_o_shift, th_h |-> pp.th_h, th_o |-> pp.th_o,
     window_len |-> pp.window_len]

RECURSIVE SeqsUpTo(_, _)
SeqsUpTo(S, n) ==
    IF n = 0 THEN {<<>>}
    ELSE LET shorter == SeqsUpTo(S, n - 1)
         IN  shorter \cup {Append(sq, e) : sq \in shorter, e \in S}

\* ------------------------------------------------------------------ state
VARIABLES
    regs,        \* FPGAEmulator._regs
    stream_buf,  \* FPGAEmulator._stream_buf
    W1, W2,      \* FPGAEmulator.W1, W2 (None until load_exports)
    raised,      \* exception the last call ended with ("none": it returned)
    ret,         \* value the last call returned
    op,          \* the last call and its arguments
    pre,         \* the emulator as the last call found it
    spike_masks, \* snn_infer_int: the window handed to the call
    Wq,          \* snn_infer_int: the int8 weight pair handed to the call
    params,      \* snn_infer_int: the IntSNNParams handed to the call
    Vh, Vo,      \* snn_infer_int: membrane potentials
    Cout,        \* snn_infer_int / infer_counts: per-class spike counts
    tstep,       \* snn_infer_int: loop index t
    pc,          \* where the engine call is: "idle", "loop", "done"
    run,         \* number of calls made with these inputs
    result,      \* (cls, counts) the last call returned
    first,       \* (cls, counts) the first call returned
    fresult,     \* (cls, conf, counts) infer_counts ends with for Cout
    eresult,     \* (cls, conf_q0_8, Cout) snn_infer_events returned
    locals,      \* snn_infer_int: Vh_new, h_spikes, Vo_new, o_spikes of the
                 \* last timestep (None before the first)
    x_spk,       \* host: the spike rows handed to spikes_to_masks
    hi_bits,     \* host: bits 12 and up of the second mask array's words
    masks_out,   \* host: what spikes_to_masks returned (None before)
    decoded,     \* host: the rows _mask_to_spikes gives for masks_out
    stale,       \* host: the FIFO content its recovery's reset found
    hpc,         \* host: position in its script ("off": no script)
    timeout,     \* test_enose_accel: the loop's countdown
    status,      \* test_enose_accel: the last STATUS value read
    warned,      \* test_enose_accel: the warning was printed
    regs_read,   \* test_enose_accel: the offsets read after the loop
    reads,       \* number of STATUS reads the loop has made
    saw_done,    \* a read of the loop returned a value with the DONE bit
    call_args,   \* pure function under test: the arguments drawn for it
    call_ret     \* pure function under test: what it returned (None before)

emu_vars == <<regs, stream_buf, W1, W2, raised, ret, op, pre>>
eng_vars == <<spike_masks, Wq, params, Vh, Vo, Cout, tstep, pc, run, result,
              first, fresult, eresult, locals>>
poll_vars == <<timeout, status, warned, regs_read, reads, saw_done>>
host_vars == <<x_spk, hi_bits, masks_out, decoded, stale, hpc, poll_vars>>
call_vars == <<call_args, call_ret>>
vars == <<emu_vars, eng_vars, host_vars, call_vars>>

\* the emulator object as the operators above take it
Self == [regs |-> regs, stream_buf |-> stream_buf, W1 |-> W1, W2 |-> W2,
         raised |-> "none"]

NoOp == [name |-> "init", offset |-> 0, value |-> 0, masks |-> <<>>]

\* FPGAEmulator.__init__, with and without an exports directory
EmuInit ==
    /\ regs = InitRegs
    /\ stream_buf = <<>>
    /\ \E loaded \in BOOLEAN :
         IF loaded
         THEN \E d \in ExportsDirs :
                /\ W1 = load_weights_from_exports(d).W1
                /\ W2 = load_weights_from_exports(d).W2
         ELSE W1 = None /\ W2 = None
    /\ raised = "none"
    /\ ret = None
    /\ op = NoOp
    /\ pre = [regs |-> regs, stream_buf |-> stream_buf, W1 |-> W1, W2 |-> W2]

\* an emulator nobody has loaded weights into or called
EmuIdle ==
    /\ regs = InitRegs
    /\ stream_buf = <<>>
    /\ W1 = None /\ W2 = None
    /\ raised = "none"
    /\ ret = None
    /\ op = NoOp
    /\ pre = [regs |-> regs, stream_buf |-> stream_buf, W1 |-> W1, W2 |-> W2]

ZeroVec(n) == [i \in 0 .. (n - 1) |-> 0]

\* no engine call has been made
EngIdle ==
    /\ spike_masks = <<>>
    /\ Wq \in WeightPairs /\ Wq.W1 = W1_q_b
    /\ params \in IntParamSets
    /\ params.window_len = 2 /\ params.th_h = 6 /\ params.th_o = 6
    /\ params.leak_h_shift = 4 /\ params.leak_o_shift = 1
    /\ Vh = ZeroVec(params.n_hidden)
    /\ Vo = ZeroVec(params.n_out)
    /\ Cout = ZeroVec(params.n_out)
    /\ tstep = 0
    /\ pc = "idle"
    /\ run = 0
    /\ result = None
    /\ first = None
    /\ fresult = None
    /\ eresult = None
    /\ locals = None

\* test_enose_accel has not been called
PollIdle ==
    /\ timeout = 0
    /\ status = 0
    /\ warned = FALSE
    /\ regs_read = <<>>
    /\ reads = 0
    /\ saw_done = FALSE

\* no spike rows, masks or recovery on the host
MaskIdle ==
    /\ x_spk = <<>>
    /\ hi_bits = 0
    /\ masks_out = None
    /\ decoded = None
    /\ stale = None

\* no pure function is under test
CallIdle ==
    /\ call_args = None
    /\ call_ret = None

\* no host script is running
HostIdle ==
    /\ MaskIdle
    /\ PollIdle
    /\ CallIdle
    /\ hpc = "off"

\* ------------------------------------------- specification: the emulator
Init == EmuInit /\ EngIdle /\ HostIdle

\* the emulator after a call that left it as sv and returned r
CommitEmu(sv, r, o) ==
    \E s \in {sv} :
    /\ regs' = s.regs
    /\ stream_buf' = s.stream_buf
    /\ W1' = s.W1
    /\ W2' = s.W2
    /\ raised' = s.raised
    /\ ret' = r
    /\ op' = o
    /\ pre' = [regs |-> regs, stream_buf |-> stream_buf, W1 |-> W1, W2 |-> W2]

Commit(sv, r, o) ==
    /\ CommitEmu(sv, r, o)
    /\ UNCHANGED <<eng_vars, host_vars, call_vars>>

WriteReg ==
    \E w \in HostWrites :
      Commit(write_reg(Self, w[1], w[2]), None,
             [name |-> "write_reg", offset |-> w[1], value |-> w[2],
              masks |-> <<>>])

ReadReg ==
    \E offset \in ReadOffsets :
      \E r \in {read_reg(Self, offset)} :
        Commit(r.self, r.ret,
               [name |-> "read_reg", offset |-> offset, value |-> 0,
                masks |-> <<>>])

StreamSend ==
    \E masks \in SeqsUpTo(Words, MaxSend) :
      /\ Len(stream_buf) + Len(masks) <= MaxBuf
      /\ Commit(stream_send_masks(Self, masks), None,
                [name |-> "stream_send_masks", offset |-> 0, value |-> 0,
                 masks |-> masks])

LoadExports ==
    \E d \in ExportsDirs :
      Commit(load_exports(Self, d), None,
             [name |-> "load_exports", offset |-> 0, value |-> 0,
              masks |-> <<>>])

Next == WriteReg \/ ReadReg \/ StreamSend \/ LoadExports

Spec == Init /\ [][Next]_vars

\* ------------------------------- specification: the fixed-point engine
\* snn_infer_int called twice on one window, weight pair and parameter set
InitEngine ==
    /\ EmuIdle
    /\ HostIdle
    /\ spike_masks \in SeqsUpTo(EngineMasks, MaxT)
    /\ Wq \in WeightPairs
    /\ params \in IntParamSets
    /\ Vh = ZeroVec(params.n_hidden)
    /\ Vo = ZeroVec(params.n_out)
    /\ Cout = ZeroVec(params.n_out)
    /\ tstep = 0
    /\ pc = "idle"
    /\ run = 0
    /\ result = None
    /\ first = None
    /\ fresult = None
    /\ eresult = None
    /\ locals = None

\* a loop over the whole window, whatever window_len is
LoopEnd_whole == Len(spike_masks)

\* T = min(len(spike_masks), p.window_len)
LoopEnd == Min(Len(spike_masks), params.window_len)

\* a call that starts from the potentials and counters it finds
Call_keeps_state ==
    /\ pc = "idle" \/ (pc = "done" /\ run < 2)
    /\ tstep' = 0
    /\ run' = run + 1
    /\ pc' = "loop"
    /\ UNCHANGED <<spike_masks, Wq, params, Vh, Vo, Cout, result, first,
                   fresult, eresult, locals, emu_vars, host_vars, call_vars>>

\* the call: lines 62-68
Call ==
    /\ pc = "idle" \/ (pc = "done" /\ run < 2)
    /\ \E st \in {snn_init(params)} :
         /\ Vh' = st.Vh
         /\ Vo' = st.Vo
         /\ Cout' = st.Cout
    /\ tstep' = 0
    /\ run' = run + 1
    /\ pc' = "loop"
    /\ locals' = None
    /\ UNCHANGED <<spike_masks, Wq, params, result, first, fresult, eresult,
                   emu_vars, host_vars, call_vars>>

\* one pass of "for t in range(T)": lines 81-152
Timestep ==
    /\ pc = "loop"
    /\ tstep < LoopEnd
    /\ \E st \in {snn_timestep([Vh |-> Vh, Vo |-> Vo, Cout |-> Cout],
                               spike_masks[tstep + 1], Wq.W1, Wq.W2, params)} :
         /\ Vh' = st.Vh
         /\ Vo' = st.Vo
         /\ Cout' = st.Cout
         /\ locals' = [Vh_new |-> st.Vh_new, h_spikes |-> st.h_spikes,
                       Vo_new |-> st.Vo_new, o_spikes |-> st.o_spikes]
    /\ tstep' = tstep + 1
    /\ UNCHANGED <<spike_masks, Wq, params, pc, run, result, first, fresult,
                   eresult, emu_vars, host_vars, call_vars>>

\* lines 158-159: cls = int(np.argmax(Cout)); return cls, Cout
Return ==
    /\ pc = "loop"
    /\ tstep = LoopEnd
    /\ \E r \in {[cls |-> np_argmax(Cout, params.n_out), counts |-> Cout]} :
         /\ result' = r
         /\ first' = IF run = 1 THEN r ELSE first
    /\ pc' = "done"
    /\ UNCHANGED <<spike_masks, Wq, params, Vh, Vo, Cout, tstep, run, fresult,
                   eresult, locals, emu_vars, host_vars, call_vars>>

\* the events of one timestep of the window: the channels set in the mask
MaskEvents(mask_t) == spikes_to_events(_mask_to_spikes(mask_t, 12), 12)

\* snn_infer_events on the same window, weights and settings
EventsCall ==
    /\ pc = "done"
    /\ eresult = None
    /\ eresult' = snn_infer_events(
                     [t \in 1 .. Len(spike_masks) |-> MaskEvents(spike_masks[t])],
                     Wq, SNNParams(params))
    /\ UNCHANGED <<spike_masks, Wq, params, Vh, Vo, Cout, tstep, pc, run,
                   result, first, fresult, locals, emu_vars, host_vars,
                   call_vars>>

\* the float 1.0 of the float engine run beside the fixed-point ones: four
\* fractional bits for each leak step of the longest window
FloatUnit == Pow2(4 * MaxT)

\* step0_verify_bit_exact, lines 144-145: W_q.astype(float32) * scale, for
\* the scale 1.0
dequantized(Wm) ==
    [i \in 0 .. (Len(Wm) - 1) |->
       [j \in 0 .. (Len(Wm[i + 1]) - 1) |-> Wm[i + 1][j + 1] * FloatUnit]]

\* the FloatSNNParams with the same settings
FloatSNNParams(pp) ==
    [pp EXCEPT !.th_h = pp.th_h * FloatUnit, !.th_o = pp.th_o * FloatUnit]

\* infer_counts on the same window, weights and settings
FloatCall ==
    /\ pc = "done"
    /\ eresult # None
    /\ fresult = None
    /\ fresult' = infer_counts(
                     [t \in 1 .. Len(spike_masks) |->
                        _mask_to_spikes(spike_masks[t], 12)],
                     [W1 |-> dequantized(Wq.W1), W2 |-> dequantized(Wq.W2)],
                     FloatSNNParams(params))
    /\ UNCHANGED <<spike_masks, Wq, params, Vh, Vo, Cout, tstep, pc, run,
                   result, first, eresult, locals, emu_vars, host_vars,
                   call_vars>>

NextEngine == Call \/ Timestep \/ Return \/ EventsCall \/ FloatCall

SpecEngine == InitEngine /\ [][NextEngine]_vars

\* ------------------- specification: the class pick of both engines
\* the class pick as a function of the counts: both engines at the end of
\* their loop over a window of MaxCount timesteps, with any count vector
\* such a window can give
InitPick ==
    /\ EmuIdle
    /\ HostIdle
    /\ spike_masks = [i \in 1 .. MaxCount |-> 3]
    /\ Wq \in WeightPairs /\ Wq.W1 = W1_q_b
    /\ params \in IntParamSets
    /\ params.window_len = 3 /\ params.th_h = 6 /\ params.th_o = 6
    /\ params.leak_h_shift = 4 /\ params.leak_o_shift = 1
    /\ Vh = ZeroVec(params.n_hidden)
    /\ Vo = ZeroVec(params.n_out)
    /\ Cout \in [0 .. (params.n_out - 1) -> 0 .. MaxCount]
    /\ tstep = LoopEnd
    /\ pc = "loop"
    /\ run = 1
    /\ result = None
    /\ first = None
    /\ fresult = None
    /\ eresult = None
    /\ locals = None

\* infer_counts, lines 57-59, on the same counts
FloatReturn ==
    /\ pc = "done"
    /\ fresult = None
    /\ fresult' = infer_result(Cout, params.n_out)
    /\ UNCHANGED <<spike_masks, Wq, params, Vh, Vo, Cout, tstep, pc, run,
                   result, first, eresult, locals, emu_vars, host_vars,
                   call_vars>>

NextPick == Return \/ FloatReturn

SpecPick == InitPick /\ [][NextPick]_vars

\* ---------------------- specification: one spike row through the masks
\* bits 12 and up the host may set in a mask word
HighBits == {1, 524287}
\* every 0/1 row over the 12 channels
SpikeRows == [0 .. 11 -> {0, 1}]
\* the words of m with hi_bits put above their low 12 bits
WithHigh(m) == [t \in 1 .. Len(m) |-> (m[t] % 4096) + 4096 * hi_bits]

\* a driver built with window_len = 1, one spike row to encode, and the
\* fixed-point engine not yet called
InitMask ==
    /\ \E d \in ExportsDirs :
         \E b \in {driver_init(d, 1)} :
           /\ regs = b.regs
           /\ stream_buf = b.stream_buf
           /\ W1 = b.W1
           /\ W2 = b.W2
    /\ raised = "none"
    /\ ret = None
    /\ op = NoOp
    /\ pre = [regs |-> regs, stream_buf |-> stream_buf, W1 |-> W1, W2 |-> W2]
    /\ EngIdle
    /\ CallIdle
    /\ x_spk \in {<<row>> : row \in SpikeRows}
    /\ hi_bits \in HighBits
    /\ masks_out = None
    /\ decoded = None
    /\ stale = None
    /\ PollIdle
    /\ hpc = "encode"

\* masks = spikes_to_masks(x_spk)
Encode ==
    /\ hpc = "encode"
    /\ masks_out' = spikes_to_masks(x_spk)
    /\ hpc' = "decode"
    /\ UNCHANGED <<x_spk, hi_bits, decoded, stale, poll_vars, emu_vars,
                   eng_vars, call_vars>>

\* _mask_to_spikes of every word of masks
Decode ==
    /\ hpc = "decode"
    /\ decoded' = [t \in 1 .. Len(masks_out) |->
                     _mask_to_spikes(masks_out[t], 12)]
    /\ hpc' = "infer_low"
    /\ UNCHANGED <<x_spk, hi_bits, masks_out, stale, poll_vars, emu_vars,
                   eng_vars, call_vars>>

\* infer_from_masks(masks)
InferLow ==
    /\ hpc = "infer_low"
    /\ \E r \in {infer_from_masks(Self, masks_out)} :
         CommitEmu(r.self, r.ret,
                   [name |-> "infer_from_masks", offset |-> 0, value |-> 0,
                    masks |-> masks_out])
    /\ hpc' = "infer_high"
    /\ UNCHANGED <<x_spk, hi_bits, masks_out, decoded, stale, poll_vars,
                   eng_vars, call_vars>>

\* infer_from_masks of the same words with other bits above bit 11
InferHigh ==
    /\ hpc = "infer_high"
    /\ \E r \in {infer_from_masks(Self, WithHigh(masks_out))} :
         CommitEmu(r.self, r.ret,
                   [name |-> "infer_from_masks", offset |-> 0, value |-> 0,
                    masks |-> WithHigh(masks_out)])
    /\ hpc' = "load"
    /\ UNCHANGED <<x_spk, hi_bits, masks_out, decoded, stale, poll_vars,
                   eng_vars, call_vars>>

\* the window snn_infer_int is called with: masks
EngineLoad ==
    /\ hpc = "load"
    /\ spike_masks' = masks_out
    /\ hpc' = "engine"
    /\ UNCHANGED <<Wq, params, Vh, Vo, Cout, tstep, pc, run, result, first,
                   fresult, eresult, locals, x_spk, hi_bits, masks_out,
                   decoded, stale, poll_vars, emu_vars, call_vars>>

\* the window of the second snn_infer_int call: the same words with other
\* bits above bit 11
EngineReload ==
    /\ hpc = "engine"
    /\ pc = "done"
    /\ run = 1
    /\ spike_masks = masks_out
    /\ spike_masks' = WithHigh(masks_out)
    /\ UNCHANGED <<Wq, params, Vh, Vo, Cout, tstep, pc, run, result, first,
                   fresult, eresult, locals, host_vars, emu_vars, call_vars>>

NextMask ==
    \/ Encode
    \/ Decode
    \/ InferLow
    \/ InferHigh
    \/ EngineLoad
    \/ EngineReload
    \/ (hpc = "engine" /\ (pc = "done" => spike_masks # masks_out) /\ Call)
    \/ (hpc = "engine" /\ Timestep)
    \/ (hpc = "engine" /\ Return)

SpecMask == InitMask /\ [][NextMask]_vars

\* ------------------- specification: the emulator with a recovering host
\* the host meets STATUS = ERR on an emulator with weights and resets
RecoverReset ==
    /\ hpc = "off"
    /\ regs[STATUS] = STS_ERR
    /\ W1 # None /\ W2 # None
    /\ CommitEmu(write_reg(Self, CONTROL, CTRL_RESET), None,
                 [name |-> "write_reg", offset |-> CONTROL,
                  value |-> CTRL_RESET, masks |-> <<>>])
    /\ stale' = stream_buf
    /\ hpc' = "rec_reset"
    /\ UNCHANGED <<x_spk, hi_bits, masks_out, decoded, poll_vars, eng_vars,
                   call_vars>>

\* then sends exactly WINDOW_LEN words
RecoverSend ==
    /\ hpc = "rec_reset"
    /\ \E words \in SeqsUpTo(Words, MaxBuf) :
         /\ Len(words) = regs[WINDOW_LEN]
         /\ CommitEmu(stream_send_masks(Self, words), None,
                      [name |-> "stream_send_masks", offset |-> 0,
                       value |-> 0, masks |-> words])
         /\ masks_out' = words
    /\ hpc' = "rec_sent"
    /\ UNCHANGED <<x_spk, hi_bits, decoded, stale, poll_vars, eng_vars, call_vars>>

\* then starts
RecoverStart ==
    /\ hpc = "rec_sent"
    /\ CommitEmu(write_reg(Self, CONTROL, CTRL_START), None,
                 [name |-> "write_reg", offset |-> CONTROL,
                  value |-> CTRL_START, masks |-> <<>>])
    /\ hpc' = "rec_done"
    /\ UNCHANGED <<x_spk, hi_bits, masks_out, decoded, stale, poll_vars,
                   eng_vars, call_vars>>

NextRecover ==
    \/ (hpc = "off" /\ Next)
    \/ RecoverReset
    \/ RecoverSend
    \/ RecoverStart

SpecRecover == Init /\ [][NextRecover]_vars

\* --------------------------- specification: the host polling harness
\* values a read of STATUS (offset 0x04) of the accelerator returns
StatusReads == {STS_DONE, STS_BUSY, STS_ERR}

InitPoll ==
    /\ EmuIdle
    /\ EngIdle
    /\ MaskIdle
    /\ PollIdle
    /\ CallIdle
    /\ hpc = "harness"

\* test_enose_accel, lines 19-30: reset, DMA transfer, START, timeout set
TestStart ==
    /\ hpc = "harness"
    /\ timeout' = PollTimeout
    /\ hpc' = "poll"
    /\ UNCHANGED <<status, warned, regs_read, reads, saw_done, x_spk, hi_bits,
                   masks_out, decoded, stale, emu_vars, eng_vars, call_vars>>

\* lines 31-35: one pass of the loop, with the loop test that follows it
PollRead ==
    /\ hpc = "poll"
    /\ timeout > 0
    /\ \E v \in StatusReads :
         /\ status' = v
         /\ saw_done' = (saw_done \/ done_bit(v))
         /\ IF done_bit(v)
            THEN timeout' = timeout /\ hpc' = "after"
            ELSE /\ timeout' = timeout - 1
                 /\ hpc' = IF timeout - 1 > 0 THEN "poll" ELSE "after"
    /\ reads' = reads + 1
    /\ UNCHANGED <<warned, regs_read, x_spk, hi_bits, masks_out, decoded,
                   stale, emu_vars, eng_vars, call_vars>>

\* lines 37-49: the warning, then the reads of status and results (DONE,
\* once read, is read again; the other values may change)
Finish ==
    /\ hpc = "after"
    /\ warned' = warns(timeout)
    /\ \E v \in (IF done_bit(status) THEN {status} ELSE StatusReads) :
         status' = v
    /\ regs_read' = ReadAfterPoll
    /\ hpc' = "returned"
    /\ UNCHANGED <<timeout, reads, saw_done, x_spk, hi_bits, masks_out,
                   decoded, stale, emu_vars, eng_vars, call_vars>>

NextPoll == TestStart \/ PollRead \/ Finish

SpecPoll == InitPoll /\ [][NextPoll]_vars

\* ------------------------------------------------ what the last call was
IsWrite(offset) == op.name = "write_reg" /\ op.offset = offset
\* the last call was a CONTROL write with the START / RESET bit set
StartSet == IsWrite(CONTROL) /\ BitTest(Mask32(op.value), CTRL_START)
ResetSet == IsWrite(CONTROL) /\ BitTest(Mask32(op.value), CTRL_RESET)
PreLoaded == pre.W1 # None /\ pre.W2 # None
PreLen == Len(pre.stream_buf)
PreWindow == pre.regs[WINDOW_LEN]
ResultRegs == {RESULT_CLASS, COUNT0, COUNT1, COUNT2, CONF_Q15}
Counts == [c \in 0 .. 2 |-> regs[COUNT0 + 4 * c]]

\* ------------------------------------------------------------------- C1
\* C1 as stated: with weights loaded and m >= WINDOW_LEN words queued, a
\* CONTROL write with START set leaves exactly the words after the first
\* WINDOW_LEN in the FIFO, in their order.
C1_AnyStartConsumesOneFrame ==
    (StartSet /\ PreLoaded /\ PreLen >= PreWindow)
      => stream_buf = SubSeq(pre.stream_buf, PreWindow + 1, PreLen)

\* C1 amended: the same for a CONTROL write with START set and RESET clear
\* (a write with both bits set empties the FIFO before the start looks at it).
C1_StartConsumesOneFrame ==
    (StartSet /\ ~ResetSet /\ PreLoaded /\ PreLen >= PreWindow)
      => stream_buf = SubSeq(pre.stream_buf, PreWindow + 1, PreLen)

\* C1 witness: a START after an earlier completed inference took one frame
\* of WINDOW_LEN >= 1 words and left a word queued.
C1_Witness ==
    /\ StartSet /\ ~ResetSet /\ PreLoaded
    /\ PreWindow >= 1 /\ PreLen > PreWindow
    /\ pre.regs[STATUS] = STS_DONE
    /\ regs[STATUS] = STS_DONE
    /\ Len(stream_buf) = PreLen - PreWindow

\* ------------------------------------------------------------------- C2
\* C2 as stated: a CONTROL write with START set that finds no weights or
\* fewer than WINDOW_LEN words sets STATUS = ERR and leaves the result
\* registers at the values they had before the write.
C2_AnyFailedStartKeepsResults ==
    (StartSet /\ (~PreLoaded \/ PreLen < PreWindow))
      => /\ regs[STATUS] = STS_ERR
         /\ \A r \in ResultRegs : regs[r] = pre.regs[r]

\* C2 amended: the same for a CONTROL write with START set and RESET clear.
C2_FailedStartKeepsResults ==
    (StartSet /\ ~ResetSet /\ (~PreLoaded \/ PreLen < PreWindow))
      => /\ regs[STATUS] = STS_ERR
         /\ \A r \in ResultRegs : regs[r] = pre.regs[r]

\* C2 witness: a START on a short FIFO after a completed inference whose
\* counts and confidence are still in the registers.
C2_Witness ==
    /\ StartSet /\ ~ResetSet /\ PreLoaded
    /\ PreLen >= 1 /\ PreLen < PreWindow
    /\ pre.regs[STATUS] = STS_DONE
    /\ regs[STATUS] = STS_ERR
    /\ regs[COUNT1] >= 1 /\ regs[CONF_Q15] >= 1

\* ------------------------------------------------------------------- C3
\* C3 as stated: any CONTROL write with the RESET bit set, whatever its
\* other bits, ends with STATUS = 0, the result registers 0 and the FIFO
\* empty.
C3_AnyResetGivesIdle ==
    (ResetSet /\ raised = "none")
      => /\ regs[STATUS] = 0
         /\ \A r \in ResultRegs : regs[r] = 0
         /\ stream_buf = <<>>

\* C3 amended: any CONTROL write with the RESET bit set ends with the result
\* registers 0 and the FIFO empty, and with STATUS = 0 when its START bit is
\* clear.
C3_ResetClears ==
    ResetSet
      => /\ \A r \in ResultRegs : regs[r] = 0
         /\ stream_buf = <<>>
         /\ ~StartSet => regs[STATUS] = 0

\* C3 witness: RESET (with INTERRUPT_ENABLE also set) written after a
\* completed inference, with results in the registers and words queued.
C3_Witness ==
    /\ ResetSet /\ ~StartSet
    /\ BitTest(Mask32(op.value), CTRL_INTEN)
    /\ pre.regs[STATUS] = STS_DONE
    /\ pre.regs[COUNT1] >= 1 /\ pre.regs[CONF_Q15] >= 1
    /\ pre.stream_buf # <<>>
    /\ regs[STATUS] = 0

\* ------------------------------------------------------------------- C4
\* the FIFO the start of the last CONTROL write looked at (a RESET bit in
\* the same write is handled first and empties it)
SeenBuf == IF ResetSet THEN <<>> ELSE pre.stream_buf
\* the frame that start dequeued
SeenFrame == SubSeq(SeenBuf, 1, PreWindow)
\* the engine's result over that frame alone
FrameResult ==
    infer_counts([t \in 1 .. Len(SeenFrame) |->
                    _mask_to_spikes(SeenFrame[t], cfg.n_in)],
                 [W1 |-> pre.W1, W2 |-> pre.W2],
                 [n_in |-> cfg.n_in, n_hidden |-> cfg.n_hidden,
                  n_out |-> cfg.n_out, window_len |-> PreWindow,
                  leak_h_shift |-> cfg.leak_h_shift,
                  leak_o_shift |-> cfg.leak_o_shift,
                  th_h |-> cfg.th_h, th_o |-> cfg.th_o])
\* i is the lowest index holding the largest of COUNT0..COUNT2
LowestMax(i) ==
    /\ \A c \in 0 .. 2 : Counts[c] <= Counts[i]
    /\ \A c \in 0 .. 2 : c < i => Counts[c] < Counts[i]
DoneWithFrameResult ==
    /\ raised = "none"
    /\ regs[STATUS] = STS_DONE
    /\ Counts = FrameResult.counts
    /\ regs[RESULT_CLASS] \in 0 .. 2
    /\ LowestMax(regs[RESULT_CLASS])

\* C4: after a START that finds weights loaded and at least WINDOW_LEN words
\* queued, STATUS = DONE, COUNT0..2 are the engine's counts over the
\* dequeued frame and RESULT_CLASS is the lowest index of the largest count.
C4_StartGivesDoneAndCounts ==
    (StartSet /\ PreLoaded /\ Len(SeenBuf) >= PreWindow)
      => DoneWithFrameResult

\* C4 for frames of at least one word: the part of the claim the code keeps
C4_NonEmptyFrame ==
    (StartSet /\ PreLoaded /\ Len(SeenBuf) >= PreWindow /\ PreWindow >= 1)
      => DoneWithFrameResult

\* a START that completed with two classes tied for the largest count
C4_TieReached ==
    /\ StartSet /\ PreLoaded /\ PreWindow >= 1 /\ regs[STATUS] = STS_DONE
    /\ regs[COUNT0] = regs[COUNT1] /\ regs[COUNT0] >= 1
    /\ regs[RESULT_CLASS] = 0

\* ------------------------------------------------------------------- C5
\* C5: every CONTROL write with START set returns normally with STATUS
\* exactly DONE or exactly ERR, and no read of STATUS returns BUSY, for
\* every WINDOW_LEN the host wrote (0 included) and every FIFO content.
C5_StartEndsDoneOrErr ==
    /\ StartSet => /\ raised = "none"
                   /\ regs[STATUS] \in {STS_DONE, STS_ERR}
    /\ (op.name = "read_reg" /\ op.offset = STATUS) => ret # STS_BUSY

\* C5 for WINDOW_LEN >= 1: the part of the claim the code keeps
C5_NonZeroWindow ==
    (StartSet /\ PreWindow >= 1)
      => /\ raised = "none"
         /\ regs[STATUS] \in {STS_DONE, STS_ERR}

C7_SendAppends ==
    op.name = "stream_send_masks"
      => /\ stream_buf = pre.stream_buf \o op.masks
         /\ regs = pre.regs

\* C7 witness: two words sent in state ERR behind a word already queued.
C7_Witness ==
    /\ op.name = "stream_send_masks"
    /\ Len(op.masks) = 2 /\ op.masks[1] # op.masks[2]
    /\ pre.stream_buf # <<>>
    /\ regs[STATUS] = STS_ERR
    /\ Len(stream_buf) = PreLen + 2

\* ------------------------------------------------------------------- C8
ZeroWindow == \A t \in 1 .. Len(spike_masks) : spike_masks[t] = 0
ZeroCounts == [c \in 0 .. 2 |-> 0]
IntZeroResult == result.counts = ZeroCounts /\ result.cls = 0
EventsZeroResult == eresult.Cout = ZeroCounts /\ eresult.cls = 0

\* C8 as stated: a window whose mask is zero at every timestep gives counts
\* [0,0,0] and class 0 in snn_infer_int and in snn_infer_events, for every
\* weight pair, threshold and leak-shift setting.
C8_AnyZeroWindowGivesZeroCounts ==
    /\ (pc = "done" /\ ZeroWindow) => IntZeroResult
    /\ (eresult # None /\ ZeroWindow) => EventsZeroResult

\* C8 amended: a window whose mask is zero at every timestep gives counts
\* [0,0,0] and class 0 in snn_infer_int and in snn_infer_events, for every
\* weight pair and leak-shift setting, when both thresholds are at least 1.
C8_ZeroWindowPositiveThresholds ==
    /\ (pc = "done" /\ ZeroWindow /\ params.th_h >= 1 /\ params.th_o >= 1)
         => IntZeroResult
    /\ (eresult # None /\ ZeroWindow /\ params.th_h >= 1 /\ params.th_o >= 1)
         => EventsZeroResult

\* both engines have returned zero counts for a zero window of three
\* timesteps under positive thresholds
C8_Witness ==
    /\ pc = "done"
    /\ eresult # None
    /\ Len(spike_masks) = 3
    /\ params.window_len = 3
    /\ ZeroWindow
    /\ params.th_h >= 1 /\ params.th_o >= 1
    /\ IntZeroResult
    /\ EventsZeroResult

\* ------------------------------------------------------------------- C9
\* C9: the second snn_infer_int call on the same mask sequence, weights and
\* parameters returns the (class, counts) the first returned, and every call
\* enters its loop with zero membrane potentials and zero counters.
C9_SecondRunSameResult ==
    /\ (pc = "done" /\ run = 2) => result = first
    /\ (pc = "loop" /\ tstep = 0) =>
         /\ Vh = ZeroVec(params.n_hidden)
         /\ Vo = ZeroVec(params.n_out)
         /\ Cout = ZeroVec(params.n_out)

\* the second call has returned, after a first call that left nonzero
\* potentials and nonzero counters behind
C9_Witness ==
    /\ pc = "done"
    /\ run = 2
    /\ result = first
    /\ result.counts # ZeroCounts
    /\ Vh # ZeroVec(params.n_hidden)
    /\ Vo # ZeroVec(params.n_out)

\* ------------------------------------------------------------------ C10
\* i is the lowest index holding the largest of the counts v[0..2]
LowestMaxOf(v, i) ==
    /\ i \in 0 .. 2
    /\ \A c \in 0 .. 2 : v[c] <= v[i]
    /\ \A c \in 0 .. 2 : c < i => v[c] < v[i]

\* C10: the class snn_infer_int returns and the class infer_counts returns
\* are the smallest index whose count equals the largest count, for every
\* count vector.
C10_ClassIsLowestMax ==
    /\ result # None => LowestMaxOf(result.counts, result.cls)
    /\ fresult # None => LowestMaxOf(fresult.counts, fresult.cls)

\* both engines have picked class 0 for three equal nonzero counts
C10_Witness ==
    /\ result # None
    /\ fresult # None
    /\ Cout = [c \in 0 .. 2 |-> 2]
    /\ result.counts = Cout
    /\ fresult.counts = Cout
    /\ result.cls = 0
    /\ fresult.cls = 0

\* both engines have picked class 2, the only largest count being the last
C10_LastIsMax ==
    /\ result # None
    /\ fresult # None
    /\ Cout = (0 :> 1 @@ 1 :> 1 @@ 2 :> 3)
    /\ result.cls = 2
    /\ fresult.cls = 2

\* ------------------------------------------------------------------ C11
\* a timestep of the running call has been made
InTimestep == pc \in {"loop", "done"} /\ tstep >= 1

\* C11: at the end of every timestep of snn_infer_int, every hidden and
\* every output neuron has spiked iff its integrated value v_new reached
\* its threshold; its stored potential is 0 if it spiked and v_new if not.
C11_FireAndHardReset ==
    InTimestep =>
      /\ \A n \in 0 .. (params.n_hidden - 1) :
           /\ locals.h_spikes[n] \in {0, 1}
           /\ locals.h_spikes[n] = 1 <=> locals.Vh_new[n] >= params.th_h
           /\ locals.h_spikes[n] = 1 => Vh[n] = 0
           /\ locals.h_spikes[n] = 0 => Vh[n] = locals.Vh_new[n]
      /\ \A c \in 0 .. (params.n_out - 1) :
           /\ locals.o_spikes[c] \in {0, 1}
           /\ locals.o_spikes[c] = 1 <=> locals.Vo_new[c] >= params.th_o
           /\ locals.o_spikes[c] = 1 => Vo[c] = 0
           /\ locals.o_spikes[c] = 0 => Vo[c] = locals.Vo_new[c]

\* a timestep in which one hidden neuron fired from a nonzero value and one
\* kept a nonzero value, and one output neuron fired and one kept its value
C11_Witness ==
    /\ InTimestep
    /\ \E n \in 0 .. 1 : locals.h_spikes[n] = 1 /\ locals.Vh_new[n] > 0
                         /\ Vh[n] = 0
    /\ \E n \in 0 .. 1 : locals.h_spikes[n] = 0 /\ Vh[n] # 0
    /\ \E c \in 0 .. 2 : locals.o_spikes[c] = 1 /\ locals.Vo_new[c] > 0
                         /\ Vo[c] = 0
    /\ \E c \in 0 .. 2 : locals.o_spikes[c] = 0 /\ Vo[c] # 0

\* ------------------------------------------------------------------ C12
\* every counter is within 0 .. number of timesteps made
CountsInRange ==
    pc \in {"loop", "done"} =>
      \A c \in 0 .. (params.n_out - 1) :
        /\ Cout[c] >= 0
        /\ Cout[c] <= tstep
        /\ tstep <= Min(Len(spike_masks), params.window_len)
        /\ pc = "done" =>
             /\ result.counts[c] = Cout[c]
             /\ result.counts[c] <= Min(Len(spike_masks), params.window_len)

\* a timestep leaves every counter as it was or one higher
CountsStep ==
    (pc = "loop" /\ tstep' = tstep + 1) =>
      \A c \in 0 .. (params.n_out - 1) : Cout'[c] - Cout[c] \in {0, 1}

\* the call starts every counter at 0
CountsStart ==
    (pc' = "loop" /\ tstep' = 0) =>
      \A c \in 0 .. (params.n_out - 1) : Cout'[c] = 0

\* C12: during an snn_infer_int call every class counter starts at 0, is
\* never negative, never decreases, grows by at most 1 per timestep, and
\* ends within 0 .. min(len(window), window_len).
C12_CountsBounded ==
    /\ []CountsInRange
    /\ [][CountsStep /\ CountsStart]_vars

\* a call has returned a counter equal to the number of timesteps, 3, and
\* another counter that stayed at 0
C12_Witness ==
    /\ pc = "done"
    /\ tstep = 3
    /\ \E c \in 0 .. 2 : result.counts[c] = 3
    /\ \E c \in 0 .. 2 : result.counts[c] = 0

\* ------------------------------------------------------------------ C13
\* the last call was a START that ended with DONE
SuccessfulStart == StartSet /\ raised = "none" /\ regs[STATUS] = STS_DONE
CountSum == Counts[0] + Counts[1] + Counts[2]
\* q is an integer nearest to 32768 * c / s, clamped to 0 .. 32767
NearestQ15(q, c, s) ==
    /\ q \in 0 .. 32767
    /\ \/ 2 * (32768 * c - q * s) \in (0 - s) .. s
       \/ q = 32767 /\ 32768 * c >= q * s
ConfFromCounts ==
    /\ regs[RESULT_CLASS] \in 0 .. 2
    /\ IF CountSum = 0 THEN regs[CONF_Q15] = 0
       ELSE NearestQ15(regs[CONF_Q15], Counts[regs[RESULT_CLASS]], CountSum)
    /\ (CountSum > 0 /\ Counts[regs[RESULT_CLASS]] = CountSum)
         => regs[CONF_Q15] = 32767

\* C13 as stated: after every successful inference CONF_Q15 is
\* round(32768 * COUNT[RESULT_CLASS] / (COUNT0+COUNT1+COUNT2)) clamped to
\* [0, 32767], 0 when no output neuron fired and 32767 when only one class
\* fired, and CONF_Q15 is within [0, 32767] in every state.
C13_ConfAlwaysQ15 ==
    /\ SuccessfulStart => ConfFromCounts
    /\ regs[CONF_Q15] \in 0 .. 32767

\* the part of C13 about the state a successful inference leaves
C13_ConfAfterInference == SuccessfulStart => ConfFromCounts

\* a successful inference in which two classes fired left a confidence
\* strictly between 0 and 32767
C13_SharedReached ==
    /\ SuccessfulStart
    /\ CountSum > Counts[regs[RESULT_CLASS]]
    /\ regs[CONF_Q15] \in 1 .. 32766

\* a successful inference in which a single class fired left 32767
C13_SingleReached ==
    /\ SuccessfulStart
    /\ CountSum > 0
    /\ Counts[regs[RESULT_CLASS]] = CountSum
    /\ regs[CONF_Q15] = 32767

\* ------------------------------------------------------------------ C14
\* the second infer_from_masks call of the script has returned
BothInferred == hpc \in {"load", "engine"}
\* the second snn_infer_int call has returned, made on the other words
BothRun == pc = "done" /\ run = 2 /\ spike_masks = WithHigh(masks_out)

\* C14: _mask_to_spikes gives back the row spikes_to_masks encoded, for every
\* 0/1 row of 12 channels; and mask words that agree on their low 12 bits
\* give the same result registers in the emulator and the same (class,
\* counts) in snn_infer_int.
C14_MaskBitsAreChannels ==
    /\ decoded # None => decoded = x_spk
    /\ masks_out # None =>
         \A i \in 0 .. 11 : Bit(masks_out[1], i) = x_spk[1][i]
    /\ BothInferred =>
         /\ raised = "none"
         /\ regs[STATUS] = STS_DONE
         /\ pre.regs[STATUS] = STS_DONE
         /\ stream_buf = <<>> /\ pre.stream_buf = <<>>
         /\ \A r \in ResultRegs : regs[r] = pre.regs[r]
         /\ ret.pred_class = regs[RESULT_CLASS]
         /\ ret.counts = <<regs[COUNT0], regs[COUNT1], regs[COUNT2]>>
    /\ BothRun => result = first

\* a row with channels 2 and 11 set went through: decoded as itself, an
\* output neuron fired in both emulator inferences and in both engine calls
C14_Witness ==
    /\ BothInferred
    /\ BothRun
    /\ x_spk[1][2] = 1 /\ x_spk[1][11] = 1
    /\ decoded = x_spk
    /\ masks_out[1] >= 2048
    /\ hi_bits = 524287
    /\ regs[COUNT1] = 1
    /\ result.counts # ZeroCounts

\* ------------------------------------------------------------------ C15
\* the engine's result over the words frame alone, with the loaded weights
ResultOfFrame(frame) ==
    infer_counts([t \in 1 .. Len(frame) |->
                    _mask_to_spikes(frame[t], cfg.n_in)],
                 [W1 |-> W1, W2 |-> W2],
                 [n_in |-> cfg.n_in, n_hidden |-> cfg.n_hidden,
                  n_out |-> cfg.n_out, window_len |-> Len(frame),
                  leak_h_shift |-> cfg.leak_h_shift,
                  leak_o_shift |-> cfg.leak_o_shift,
                  th_h |-> cfg.th_h, th_o |-> cfg.th_o])
\* the recovery ended with DONE and the result of the words it sent
Recovered ==
    /\ raised = "none"
    /\ regs[STATUS] = STS_DONE
    /\ stream_buf = <<>>
    /\ Counts = ResultOfFrame(masks_out).counts
    /\ regs[RESULT_CLASS] = ResultOfFrame(masks_out).cls
    /\ ConfFromCounts

\* C15: from every state with STATUS = ERR and weights loaded, CONTROL <-
\* RESET, a send of exactly WINDOW_LEN words and CONTROL <- START end with
\* STATUS = DONE and the result registers of exactly those words.
C15_ErrIsRecoverable == hpc = "rec_done" => Recovered

\* C15 for WINDOW_LEN >= 1: the part of the claim the code keeps
C15_NonEmptyFrame ==
    (hpc = "rec_done" /\ regs[WINDOW_LEN] >= 1) => Recovered

\* a recovery that found words queued and results in the registers ended
\* with DONE and a class count of the words it sent
C15_RecoveryReached ==
    /\ hpc = "rec_done"
    /\ stale # <<>>
    /\ Len(masks_out) >= 2
    /\ Recovered
    /\ Counts # ZeroCounts

\* ------------------------------------------------------------------ C16
\* C16: the result registers a successful START leaves are the engine's
\* result over the dequeued frame alone, started from zero potentials, with
\* the loaded weights and the configuration, whatever frames were run and
\* whatever results were in the registers before.
C16_ResultOfFrameOnly ==
    SuccessfulStart =>
      /\ Counts = FrameResult.counts
      /\ regs[RESULT_CLASS] = FrameResult.cls
      /\ ConfFromCounts

\* a successful START that followed an earlier inference with other counts
C16_Witness ==
    /\ SuccessfulStart
    /\ ~ResetSet
    /\ pre.regs[STATUS] = STS_DONE
    /\ pre.regs[COUNT1] >= 1
    /\ regs[COUNT0] # pre.regs[COUNT0]
    /\ Counts # ZeroCounts
    /\ Counts = FrameResult.counts

\* ------------------------------------------------------------------ C17
\* C17: the STATUS poll loop of test_enose_accel makes at most 100000
\* reads; once the harness is past the loop it has printed the warning iff
\* no read returned the DONE bit, has read the status and result registers
\* in both cases, and has raised nothing.
C17_BoundedPoll ==
    /\ reads <= 100000
    /\ hpc \in {"poll", "after"} => reads + timeout \in {100000, 100001}
    /\ hpc = "after" => (timeout = 0 <=> ~saw_done)
    /\ hpc = "returned" =>
         /\ warned <=> ~saw_done
         /\ ~saw_done => reads = 100000
         /\ regs_read = <<4, 24, 48, 52>>
         /\ raised = "none"

\* the harness returned without warning after a third read that had DONE
C17_Witness ==
    /\ hpc = "returned"
    /\ reads = 3
    /\ saw_done
    /\ ~warned
    /\ regs_read = <<4, 24, 48, 52>>

\* the harness returned after 100000 reads without DONE, having warned
C17_Exhausted ==
    /\ hpc = "returned"
    /\ reads = 100000
    /\ ~saw_done
    /\ warned
    /\ regs_read = <<4, 24, 48, 52>>

\* ------------------------------------- src/models/export_weights.py
\* A float matrix is modelled flattened (quantize_int8 is elementwise apart
\* from the maximum) as [e, k]: entry i has the value k[i] * 2^-e. Ratios of
\* entries, which is all that w / scale needs when scale = mx / 127, are
\* then exact; the model rounds the exact quotient where numpy rounds the
\* float32 quotient.

\* most entries of a matrix handed to quantize_int8
MaxW == 3

\* 2^-7: weights of ordinary size; 2^-44: weights around the 1e-12 cutoff
Exponents == {7, 44}

\* the k of the entries: zero, a tie (127 of 254), both sides of the cutoff
\* (17 * 2^-44 < 1e-12 < 18 * 2^-44), and each value's negation
QuantValues == {-254, -127, -18, -17, -1, 0, 1, 17, 18, 127, 254}

QuantInputs ==
    {[e |-> ex, k |-> kk] : ex \in Exponents,
                            kk \in SeqsUpTo(QuantValues, MaxW) \ {<<>>}}

\* -w
negated(w) == [w EXCEPT !.k = [i \in 1 .. Len(w.k) |-> 0 - w.k[i]]]

Abs(x) == IF x < 0 THEN 0 - x ELSE x

\* line 19: np.max(np.abs(w)), in units of 2^-e
np_abs_max(w) ==
    CHOOSE m \in {Abs(w.k[i]) : i \in 1 .. Len(w.k)} :
        \A i \in 1 .. Len(w.k) : Abs(w.k[i]) <= m

\* line 20: mx > 1e-12 for mx = m * 2^-e. 2^-7 > 1e-12, and
\* 2^44 = 17592186044416, so that 17 * 2^-44 < 1e-12 < 18 * 2^-44
above_cutoff(m, e) == IF e = 44 THEN m > 17 ELSE m > 0

\* the float 1.0
FloatOne == [num |-> 1, den |-> 1, e |-> 0]

\* floor(x + 0.5) of the fraction num/den
RoundHalfUp(num, den) == (2 * num + den) \div (2 * den)

\* np.round(k * 2^-e / 1.0) for |k| < 2^30: below one half in magnitude
\* once e > 30
round_unscaled(k, e) ==
    IF e <= 30 THEN RoundHalfEven(k, Pow2(e)) ELSE 0

\* quantize_int8 rounding halves up instead of to even
quantize_int8_half_up(w) ==
    LET mx == np_abs_max(w)
        big == above_cutoff(mx, w.e)
    IN  [q |-> [i \in 1 .. Len(w.k) |->
                  Clip(IF big THEN RoundHalfUp(127 * w.k[i], mx)
                       ELSE round_unscaled(w.k[i], w.e), -127, 127)],
         scale |-> IF big THEN [num |-> mx, den |-> 127, e |-> w.e]
                   ELSE FloatOne]

\* quantize_int8, lines 18-22: scale = num/den * 2^-e
quantize_int8(w) ==
    LET mx == np_abs_max(w)
        big == above_cutoff(mx, w.e)
    IN  [q |-> [i \in 1 .. Len(w.k) |->
                  Clip(IF big THEN RoundHalfEven(127 * w.k[i], mx)
                       ELSE round_unscaled(w.k[i], w.e), -127, 127)],
         scale |-> IF big THEN [num |-> mx, den |-> 127, e |-> w.e]
                   ELSE FloatOne]

\* --------------------------------------- specification: quantize_int8
InitQuant ==
    /\ EmuIdle
    /\ EngIdle
    /\ MaskIdle
    /\ PollIdle
    /\ hpc = "quantize"
    /\ call_args \in QuantInputs
    /\ call_ret = None

\* q, scale = quantize_int8(w)
Quantize ==
    /\ hpc = "quantize"
    /\ call_ret = None
    /\ call_ret' = [res |-> quantize_int8(call_args), neg |-> None]
    /\ UNCHANGED <<call_args, emu_vars, eng_vars, host_vars>>

\* quantize_int8(-w), for the same w
QuantizeNegated ==
    /\ hpc = "quantize"
    /\ call_ret # None
    /\ call_ret.neg = None
    /\ call_ret' = [call_ret EXCEPT !.neg = quantize_int8(negated(call_args))]
    /\ UNCHANGED <<call_args, emu_vars, eng_vars, host_vars>>

NextQuant == Quantize \/ QuantizeNegated

SpecQuant == InitQuant /\ [][NextQuant]_vars

\* ---------------------------------------------------------------- C18
Quantized == hpc = "quantize" /\ call_ret # None

AllZero(w) == \A i \in 1 .. Len(w.k) : w.k[i] = 0

\* the scale is m * 2^-e / 127
IsMaxOver127(sc, m, e) == sc.num * 127 = m * sc.den /\ sc.e = e

\* the integers are in [-127, 127], a zero entry gives a zero, and the
\* negated matrix gives the negated integers with the same scale
QuantShape ==
    LET w == call_args
        r == call_ret.res
    IN  /\ Len(r.q) = Len(w.k)
        /\ \A i \in 1 .. Len(w.k) :
             /\ r.q[i] \in -127 .. 127
             /\ w.k[i] = 0 => r.q[i] = 0
        /\ call_ret.neg # None =>
             /\ call_ret.neg.scale = r.scale
             /\ call_ret.neg.q = [i \in 1 .. Len(w.k) |-> 0 - r.q[i]]

\* C18 as stated: the scale quantize_int8 returns is max|w|/127, or 1.0
\* when the matrix is all-zero; every integer is in [-127, 127]; a zero
\* entry maps to 0; quantize_int8(-w) = (-q, scale).
C18_ScaleIsMaxOver127 ==
    Quantized =>
        /\ IF AllZero(call_args) THEN call_ret.res.scale = FloatOne
           ELSE IsMaxOver127(call_ret.res.scale, np_abs_max(call_args),
                             call_args.e)
        /\ QuantShape

\* C18 with the cutoff of the code: the scale is max|w|/127 when
\* max|w| > 1e-12 and 1.0 otherwise (the all-zero matrix included); every
\* integer is in [-127, 127]; a zero entry maps to 0; quantize_int8(-w) =
\* (-q, scale).
C18_ScaleAboveCutoff ==
    Quantized =>
        /\ IF above_cutoff(np_abs_max(call_args), call_args.e)
           THEN IsMaxOver127(call_ret.res.scale, np_abs_max(call_args),
                             call_args.e)
           ELSE call_ret.res.scale = FloatOne
        /\ QuantShape

\* a matrix with a tie (127 * 1 / 254 = 0.5), a zero and its maximum has
\* been quantized, and so has its negation
C18_Witness ==
    /\ Quantized
    /\ call_args = [e |-> 7, k |-> <<1, 0, -254>>]
    /\ call_ret.res.q = <<0, 0, -127>>
    /\ call_ret.neg # None
    /\ call_ret.neg.q = <<0, 0, 127>>

\* a non-zero matrix below the cutoff has been quantized with scale 1.0
C18_TinyReached ==
    /\ Quantized
    /\ call_args = [e |-> 44, k |-> <<17, -1>>]
    /\ call_ret.res.scale = FloatOne
    /\ call_ret.res.q = <<0, 0>>

\* ------------------------------------ scripts/step0_verify_bit_exact.py
\* most samples the verifier compares
MaxN == 20

\* agree / n < num / den. The code compares the float quotient with a float
\* literal; the two orders agree while n < 10^14.
rate_below(agree, n, num, den) == agree * den < num * n

\* lines 262-271 with the warning band closed at 0.95
verdict_gf_quant_gi_closed(agree, n) ==
    IF rate_below(agree, n, 90, 100) THEN "FAIL"
    ELSE IF ~rate_below(95, 100, agree, n) THEN "WARN"
    ELSE "PASS"

\* lines 251-255: Torch vs Golden-float
verdict_torch_gf(agree, n) ==
    IF rate_below(agree, n, 999, 1000) THEN "FAIL" ELSE "PASS"

\* lines 257-260: Golden-float with original vs quantized weights
verdict_gf_orig_quant(agree, n) ==
    IF rate_below(agree, n, 95, 100) THEN "WARN" ELSE "PASS"

\* lines 262-271: Golden-float-quant vs Golden-int
verdict_gf_quant_gi(agree, n) ==
    IF rate_below(agree, n, 90, 100) THEN "FAIL"
    ELSE IF rate_below(agree, n, 95, 100) THEN "WARN"
    ELSE "PASS"

\* lines 158-204: n samples, and the agreements counted over them
VerdictInputs ==
    {[n |-> n, agree_torch_gf |-> a1, agree_gf_orig_quant |-> a2,
      agree_gf_quant_gi |-> a3] :
        n \in 1 .. MaxN, a1 \in 0 .. MaxN, a2 \in 0 .. MaxN,
        a3 \in 0 .. MaxN}

\* ------------------------------------ specification: the verdict section
InitVerdict ==
    /\ EmuIdle
    /\ EngIdle
    /\ MaskIdle
    /\ PollIdle
    /\ hpc = "verdict"
    /\ call_args \in {a \in VerdictInputs :
                        /\ a.agree_torch_gf <= a.n
                        /\ a.agree_gf_orig_quant <= a.n
                        /\ a.agree_gf_quant_gi <= a.n}
    /\ call_ret = [report |-> <<>>, ok |-> TRUE]

\* the report with one more line, and ok cleared by a failure
Reported(tag) ==
    [report |-> Append(call_ret.report, tag),
     ok |-> call_ret.ok /\ tag # "FAIL"]

\* lines 251-255
VerdictTorchGf ==
    /\ hpc = "verdict"
    /\ Len(call_ret.report) = 0
    /\ call_ret' = Reported(verdict_torch_gf(call_args.agree_torch_gf,
                                             call_args.n))
    /\ UNCHANGED <<call_args, emu_vars, eng_vars, host_vars>>

\* lines 257-260
VerdictGfOrigQuant ==
    /\ hpc = "verdict"
    /\ Len(call_ret.report) = 1
    /\ call_ret' = Reported(verdict_gf_orig_quant(
                                call_args.agree_gf_orig_quant, call_args.n))
    /\ UNCHANGED <<call_args, emu_vars, eng_vars, host_vars>>

\* lines 262-271
VerdictGfQuantGi ==
    /\ hpc = "verdict"
    /\ Len(call_ret.report) = 2
    /\ call_ret' = Reported(verdict_gf_quant_gi(call_args.agree_gf_quant_gi,
                                                call_args.n))
    /\ UNCHANGED <<call_args, emu_vars, eng_vars, host_vars>>

\* lines 273-276
VerdictReady ==
    /\ hpc = "verdict"
    /\ Len(call_ret.report) = 3
    /\ call_ret' = [call_ret EXCEPT
                      !.report = Append(@, IF call_ret.ok THEN "READY"
                                           ELSE "FIX")]
    /\ UNCHANGED <<call_args, emu_vars, eng_vars, host_vars>>

NextVerdict ==
    \/ VerdictTorchGf
    \/ VerdictGfOrigQuant
    \/ VerdictGfQuantGi
    \/ VerdictReady

SpecVerdict == InitVerdict /\ [][NextVerdict]_vars

\* ---------------------------------------------------------------- C19
\* pass iff a >= 0.95, warning iff 0.90 <= a < 0.95, failure iff a < 0.90
ThreeBands(agree, n) ==
    IF 100 * agree >= 95 * n THEN "PASS"
    ELSE IF 100 * agree >= 90 * n THEN "WARN"
    ELSE "FAIL"

VerdictAt(i) == hpc = "verdict" /\ Len(call_ret.report) >= i

\* C19 as stated: for every backend-pair agreement rate a = agree/n the
\* verdict section evaluates, the report is pass iff a >= 0.95, warning iff
\* 0.90 <= a < 0.95 and failure iff a < 0.90.
C19_EveryPairThreeBands ==
    /\ VerdictAt(1) =>
         call_ret.report[1] = ThreeBands(call_args.agree_torch_gf,
                                         call_args.n)
    /\ VerdictAt(2) =>
         call_ret.report[2] = ThreeBands(call_args.agree_gf_orig_quant,
                                         call_args.n)
    /\ VerdictAt(3) =>
         call_ret.report[3] = ThreeBands(call_args.agree_gf_quant_gi,
                                         call_args.n)

\* C19 for the pairs as the code treats them: the three bands are those of
\* Golden-float-quant vs Golden-int; Torch vs Golden-float fails iff
\* a < 0.999 and passes otherwise; Golden-float original vs quantized warns
\* iff a < 0.95, passes otherwise and never fails.
C19_BandsPerPair ==
    /\ VerdictAt(1) =>
         call_ret.report[1] =
            (IF 1000 * call_args.agree_torch_gf >= 999 * call_args.n
             THEN "PASS" ELSE "FAIL")
    /\ VerdictAt(2) =>
         call_ret.report[2] =
            (IF 100 * call_args.agree_gf_orig_quant >= 95 * call_args.n
             THEN "PASS" ELSE "WARN")
    /\ VerdictAt(3) =>
         call_ret.report[3] = ThreeBands(call_args.agree_gf_quant_gi,
                                         call_args.n)

\* a verdict over 20 samples with the rates 1.0, 0.95 and 0.90: pass, pass
\* (boundary) and warning (boundary)
C19_Witness ==
    /\ hpc = "verdict"
    /\ call_args = [n |-> 20, agree_torch_gf |-> 20,
                    agree_gf_orig_quant |-> 19, agree_gf_quant_gi |-> 18]
    /\ call_ret.report = <<"PASS", "PASS", "WARN", "READY">>

\* a rate of 0.95 between Torch and Golden-float is reported as a failure
C19_TorchFailsAt95 ==
    /\ hpc = "verdict"
    /\ call_args.n = 20
    /\ call_args.agree_torch_gf = 19
    /\ Len(call_ret.report) >= 1
    /\ call_ret.report[1] = "FAIL"

\* -------------------- scripts/gen_snn_test_vectors.py: the leak step alone
\* the values of np.int16
Int16Range == -32768 .. 32767

\* shifts of the leak
ShiftRange == 0 .. 15

\* an int16 is 256 * high + low for a signed high byte and an unsigned low
\* byte
HighBytes == -128 .. 127
LowBytes == 0 .. 255

\* asr16, line 42, and one branch's shift: v32 >> shift as int32
v32_shifted(v, shift) == v \div Pow2(shift)

\* line 97: np.int32(Vh[n]) - np.int32(leak_val), before the int16 cast
leak_diff32(v, lv) == v - lv

\* --------------------------------------- specification: the leak step
InitLeak ==
    /\ EmuIdle
    /\ EngIdle
    /\ MaskIdle
    /\ PollIdle
    /\ hpc = "leak"
    /\ call_args \in [high : HighBytes, shift : ShiftRange]
    /\ call_ret = None

\* lines 96-97: leak_val = asr16(Vh[n], shift); Vh_leaked[n] = int16(...)
\* for one potential Vh[n] and one p.leak_h_shift
LeakStep ==
    /\ hpc = "leak"
    /\ call_ret = None
    /\ \E low \in LowBytes :
         LET v == 256 * call_args.high + low
             shift == call_args.shift
         IN  call_ret' =
               Bind(asr16(v, shift),
                    LAMBDA lv :
                      [v |-> v,
                       v32_shifted |-> v32_shifted(v, shift),
                       leak_val |-> lv,
                       diff32 |-> leak_diff32(v, lv),
                       Vh_leaked |-> Int16(leak_diff32(v, lv))])
    /\ UNCHANGED <<call_args, emu_vars, eng_vars, host_vars>>

NextLeak == LeakStep

SpecLeak == InitLeak /\ [][NextLeak]_vars

\* ---------------------------------------------------------------- C20
\* q = floor(v / 2^shift)
IsFloorOfShift(q, v, shift) ==
    /\ q * Pow2(shift) <= v
    /\ v < (q + 1) * Pow2(shift)

\* C20: for every signed 16-bit v and every shift in 0..15, asr16(v, shift)
\* is floor(v / 2^shift) and the leaked value is v - floor(v / 2^shift);
\* neither 32-bit intermediate leaves the int16 range, so that no cast
\* wraps.
C20_LeakIsFloorShift ==
    (hpc = "leak" /\ call_ret # None) =>
        /\ IsFloorOfShift(call_ret.leak_val, call_ret.v, call_args.shift)
        /\ call_ret.v32_shifted = call_ret.leak_val
        /\ call_ret.v32_shifted \in Int16Range
        /\ call_ret.diff32 \in Int16Range
        /\ call_ret.Vh_leaked = call_ret.diff32
        /\ call_ret.Vh_leaked + call_ret.leak_val = call_ret.v
        /\ call_ret.Vh_leaked =
             leak_accumulate(call_ret.v, call_args.shift, 0)

\* the leak of -1 by four bits: floor(-1/16) = -1, leaked value 0
C20_Witness ==
    /\ hpc = "leak"
    /\ call_args.shift = 4
    /\ call_ret # None
    /\ call_ret.v = -1
    /\ call_ret.leak_val = -1
    /\ call_ret.Vh_leaked = 0

\* the leak of the most negative potential by fifteen bits
C20_MostNegative ==
    /\ hpc = "leak"
    /\ call_args.shift = 15
    /\ call_ret # None
    /\ call_ret.v = -32768
    /\ call_ret.leak_val = -1
    /\ call_ret.Vh_leaked = -32767

\* ------------------- src/models/golden_inference_float.py: the leak alone
\* largest leak shift handed to shift_to_alpha
MaxShift == 4
\* largest magnitude of the potential the leak is applied to
MaxV == 16

\* a float potential k.0 in units of 2^-MaxShift, so that alpha * v is exact
FloatOf(k) == k * Pow2(MaxShift)

\* ------------------------------------- specification: the float leak
InitAlpha ==
    /\ EmuIdle
    /\ EngIdle
    /\ MaskIdle
    /\ PollIdle
    /\ hpc = "alpha"
    /\ call_args \in [shift : 0 .. MaxShift, vh : (0 - MaxV) .. MaxV]
    /\ call_ret = None

\* infer_counts, line 38: alpha_h = shift_to_alpha(p.leak_h_shift)
AlphaCall ==
    /\ hpc = "alpha"
    /\ call_ret = None
    /\ call_ret' = [alpha_h |-> shift_to_alpha(call_args.shift),
                    leaked |-> None]
    /\ UNCHANGED <<call_args, emu_vars, eng_vars, host_vars>>

\* infer_counts, line 47, without input: vh = alpha_h * vh
FloatLeak ==
    /\ hpc = "alpha"
    /\ call_ret # None
    /\ call_ret.leaked = None
    /\ call_ret' = [call_ret EXCEPT
                      !.leaked = [vh |-> FMul(call_ret.alpha_h,
                                              FloatOf(call_args.vh))]]
    /\ UNCHANGED <<call_args, emu_vars, eng_vars, host_vars>>

NextAlpha == AlphaCall \/ FloatLeak

SpecAlpha == InitAlpha /\ [][NextAlpha]_vars

\* ---------------------------------------------------------------- C21
\* alpha = 1 - 2^-s
IsOneMinusPow(alpha, s) == alpha.num * Pow2(s) = (Pow2(s) - 1) * alpha.den

\* leaked = v - v / 2^s, in units of 2^-MaxShift
IsShiftSubtract(leaked, v, s) == leaked * Pow2(s) = v * Pow2(s) - v

AlphaKnown == hpc = "alpha" /\ call_ret # None
FloatLeaked == AlphaKnown /\ call_ret.leaked # None

\* C21 as stated: for every integer leak shift s >= 0 the leak factor is
\* alpha = 1 - 2^-s and the float leak of v is v - v/2^s, which is the
\* integer engine's shift-subtract wherever 2^s divides v.
C21_AlphaForEveryShift ==
    /\ AlphaKnown => IsOneMinusPow(call_ret.alpha_h, call_args.shift)
    /\ FloatLeaked =>
         /\ IsShiftSubtract(call_ret.leaked.vh, FloatOf(call_args.vh),
                            call_args.shift)
         /\ call_args.vh % Pow2(call_args.shift) = 0 =>
              call_ret.leaked.vh =
                FloatOf(call_args.vh - asr16(call_args.vh, call_args.shift))

\* C21 with the clamp of the code: for every leak shift s >= 1 the leak
\* factor is alpha = 1 - 2^-s and the float leak of v is v - v/2^s, the
\* integer engine's shift-subtract wherever 2^s divides v; for s = 0 the
\* factor is that of s = 1, one half, and the float leak of v is v/2.
C21_AlphaForShiftFromOne ==
    /\ AlphaKnown =>
         IsOneMinusPow(call_ret.alpha_h, Max(1, call_args.shift))
    /\ FloatLeaked =>
         /\ IsShiftSubtract(call_ret.leaked.vh, FloatOf(call_args.vh),
                            Max(1, call_args.shift))
         /\ (/\ call_args.shift >= 1
             /\ call_args.vh % Pow2(call_args.shift) = 0) =>
              call_ret.leaked.vh =
                FloatOf(call_args.vh - asr16(call_args.vh, call_args.shift))

\* 16.0 has been leaked with shift 2: alpha = 3/4, leaked value 12.0
C21_Witness ==
    /\ FloatLeaked
    /\ call_args = [shift |-> 2, vh |-> 16]
    /\ call_ret.alpha_h = [num |-> 3, den |-> 4]
    /\ call_ret.leaked.vh = FloatOf(12)

\* 16.0 has been leaked with shift 0: alpha = 1/2, leaked value 8.0
C21_ShiftZeroHalves ==
    /\ FloatLeaked
    /\ call_args = [shift |-> 0, vh |-> 16]
    /\ call_ret.alpha_h = [num |-> 1, den |-> 2]
    /\ call_ret.leaked.vh = FloatOf(8)

\* ---------------------------------------------------------------- C22
\* the first window_len timesteps of the window (the whole window when it
\* has no more)
WindowHead == SubSeq(spike_masks, 1, Min(Len(spike_masks), params.window_len))

\* snn_infer_int's loop body applied to every timestep of the window w
RECURSIVE IntOverAll(_, _)
IntOverAll(w, k) ==
    IF k = 0 THEN snn_init(params)
    ELSE Bind(IntOverAll(w, k - 1),
              LAMBDA st : snn_timestep([Vh |-> st.Vh, Vo |-> st.Vo,
                                        Cout |-> st.Cout],
                                       w[k], Wq.W1, Wq.W2, params))

EventsOf(w) == [t \in 1 .. Len(w) |-> MaskEvents(w[t])]
SpikesOf(w) == [t \in 1 .. Len(w) |-> _mask_to_spikes(w[t], 12)]

\* C22: each engine processes exactly the first min(len(window), window_len)
\* timesteps: what snn_infer_int, snn_infer_events and infer_counts return
\* for a window is what they return for its first window_len timesteps.
C22_WindowBounded ==
    /\ pc = "loop" => tstep <= Min(Len(spike_masks), params.window_len)
    /\ pc = "done" =>
         /\ tstep = Min(Len(spike_masks), params.window_len)
         /\ result.counts = IntOverAll(WindowHead, Len(WindowHead)).Cout
         /\ result.cls = np_argmax(result.counts, params.n_out)
    /\ (pc = "done" /\ eresult # None) =>
         eresult = snn_infer_events(EventsOf(WindowHead), Wq,
                                    SNNParams(params))
    /\ (pc = "done" /\ fresult # None) =>
         fresult = infer_counts(SpikesOf(WindowHead),
                                [W1 |-> dequantized(Wq.W1),
                                 W2 |-> dequantized(Wq.W2)],
                                FloatSNNParams(params))

\* the three engines have returned for a window of three timesteps with
\* window_len 2, whose third timestep would have raised a count
C22_Witness ==
    /\ pc = "done"
    /\ Len(spike_masks) = 3
    /\ params.window_len = 2
    /\ tstep = 2
    /\ eresult # None
    /\ fresult # None
    /\ IntOverAll(spike_masks, 3).Cout # result.counts
    /\ eresult.Cout = result.counts

\* ---------------------------------------------------------------- C23
\* the weights into hidden neuron n of the channels set in the mask
ChannelSum(mask, n) ==
    SumTo([ch \in 0 .. 11 |-> Bit(mask, ch) * Wq.W1[ch + 1][n + 1]], 12)

\* the weights into output neuron c of the hidden neurons with h[n] = 1
SpikeSum(h, c) ==
    SumTo([n \in 0 .. (params.n_hidden - 1) |-> h[n] * Wq.W2[n + 1][c + 1]],
          params.n_hidden)

\* from rest, the hidden spikes of a timestep with this mask
FirstHidden(mask) ==
    [n \in 0 .. (params.n_hidden - 1) |->
       IF ChannelSum(mask, n) >= params.th_h THEN 1 ELSE 0]

\* from rest, the output spikes the same timestep gives if the output layer
\* integrates those hidden spikes at once
FirstOutput(mask) ==
    [c \in 0 .. (params.n_out - 1) |->
       IF SpikeSum(FirstHidden(mask), c) >= params.th_o THEN 1 ELSE 0]

\* a timestep of snn_infer_int: the output potentials integrate the hidden
\* spikes of that timestep, and the counts rise by its output spikes
CascadeStep ==
    (pc = "loop" /\ tstep' = tstep + 1) =>
      /\ \A n \in 0 .. (params.n_hidden - 1) :
           locals'.h_spikes[n] =
             (IF locals'.Vh_new[n] >= params.th_h THEN 1 ELSE 0)
      /\ \A c \in 0 .. (params.n_out - 1) :
           /\ locals'.Vo_new[c] =
                Int16(Vo[c] - asr16(Vo[c], params.leak_o_shift)
                      + SpikeSum(locals'.h_spikes, c))
           /\ Cout'[c] =
                Cout[c] + (IF locals'.Vo_new[c] >= params.th_o THEN 1 ELSE 0)

\* the first timestep alone already gives the counts of a cascade without
\* delay, in snn_infer_int and in snn_infer_events
CascadeFirst ==
    /\ (pc \in {"loop", "done"} /\ tstep = 1) =>
         Cout = FirstOutput(spike_masks[1])
    /\ (pc = "done" /\ eresult # None /\ tstep = 1) =>
         eresult.Cout = FirstOutput(spike_masks[1])

\* C23: within timestep t the output layer integrates the hidden spikes of
\* the same timestep t (after the hidden fire, before the output fire), so
\* that an input at timestep t can raise a class count at timestep t.
C23_SameTimestepCascade ==
    /\ []CascadeFirst
    /\ [][CascadeStep]_vars

\* both engines have returned a count raised by the only timestep of the
\* window
C23_Witness ==
    /\ pc = "done"
    /\ tstep = 1
    /\ eresult # None
    /\ \E c \in 0 .. 2 : Cout[c] = 1 /\ eresult.Cout[c] = 1
    /\ \E n \in 0 .. 1 : locals.h_spikes[n] = 1

\* ---------------------------------------------------------------- C24
OtherWrite ==
    /\ op.name = "write_reg"
    /\ op.offset \notin {CONTROL, WINDOW_LEN}

\* C24: a host write to a register other than CONTROL and WINDOW_LEN is
\* ignored: it changes no register value and adds no register.
C24_OtherWritesIgnored ==
    OtherWrite =>
        /\ DOMAIN regs = DOMAIN pre.regs
        /\ regs = pre.regs

\* a host write of 7 to COUNT0 has been stored over the count of a
\* completed inference
C24_CountOverwritten ==
    /\ OtherWrite
    /\ op.offset = COUNT0
    /\ pre.regs[STATUS] = STS_DONE
    /\ pre.regs[COUNT0] # 7
    /\ regs[COUNT0] = 7

\* ---------------------------------------------------------------- C26
\* the last call was a CONTROL write with RESET and START both set
ResetAndStart ==
    /\ op.name = "write_reg"
    /\ op.offset = CONTROL
    /\ BitTest(op.value, CTRL_RESET)
    /\ BitTest(op.value, CTRL_START)

\* C26: a CONTROL write with RESET and START both set resets first and
\* starts second: with weights loaded and WINDOW_LEN >= 1 it ends with
\* STATUS=ERR, the result registers 0 and the FIFO empty.
C26_ResetBeforeStart ==
    (ResetAndStart /\ pre.W1 # None /\ pre.regs[WINDOW_LEN] >= 1) =>
        /\ raised = "none"
        /\ regs[STATUS] = STS_ERR
        /\ \A r \in {RESULT_CLASS, COUNT0, COUNT1, COUNT2, CONF_Q15,
                     LATENCY_CYCLES} : regs[r] = 0
        /\ stream_buf = <<>>

\* the write found a whole frame queued and the results of an inference,
\* and left ERR, zero results and an empty FIFO
C26_Witness ==
    /\ ResetAndStart
    /\ pre.W1 # None
    /\ pre.regs[WINDOW_LEN] >= 1
    /\ Len(pre.stream_buf) >= pre.regs[WINDOW_LEN]
    /\ pre.regs[STATUS] = STS_DONE
    /\ pre.regs[COUNT0] + pre.regs[COUNT1] + pre.regs[COUNT2] > 0
    /\ regs[STATUS] = STS_ERR
    /\ regs[COUNT0] + regs[COUNT1] + regs[COUNT2] = 0
    /\ stream_buf = <<>>

\* ------------------- specification: words sent around a failed START
\* the host sends words to the emulator it finds with weights loaded and an
\* empty FIFO: fewer than WINDOW_LEN at first, the rest after the failed
\* START
AccSend ==
    /\ hpc \in {"off", "acc_failed"}
    /\ hpc = "off" => (W1 # None /\ W2 # None /\ stream_buf = <<>>)
    /\ \E words \in SeqsUpTo(Words, MaxBuf) :
         /\ hpc = "off" => Len(words) < regs[WINDOW_LEN]
         /\ hpc = "acc_failed" =>
              Len(masks_out) + Len(words) = regs[WINDOW_LEN]
         /\ CommitEmu(stream_send_masks(Self, words), None,
                      [name |-> "stream_send_masks", offset |-> 0,
                       value |-> 0, masks |-> words])
         /\ masks_out' = (IF hpc = "off" THEN words ELSE masks_out \o words)
    /\ hpc' = (IF hpc = "off" THEN "acc_sent" ELSE "acc_resent")
    /\ UNCHANGED <<x_spk, hi_bits, decoded, stale, poll_vars, eng_vars,
                   call_vars>>

\* CONTROL <- START after each of the two sends
AccStart ==
    /\ hpc \in {"acc_sent", "acc_resent"}
    /\ CommitEmu(write_reg(Self, CONTROL, CTRL_START), None,
                 [name |-> "write_reg", offset |-> CONTROL,
                  value |-> CTRL_START, masks |-> <<>>])
    /\ hpc' = (IF hpc = "acc_sent" THEN "acc_failed" ELSE "acc_done")
    /\ UNCHANGED <<x_spk, hi_bits, masks_out, decoded, stale, poll_vars,
                   eng_vars, call_vars>>

NextAccumulate ==
    \/ (hpc = "off" /\ Next)
    \/ AccSend
    \/ AccStart

SpecAccumulate == Init /\ [][NextAccumulate]_vars

\* ---------------------------------------------------------------- C27
\* the last call was a CONTROL write with START set and RESET clear
StartOnly ==
    /\ op.name = "write_reg"
    /\ op.offset = CONTROL
    /\ BitTest(op.value, CTRL_START)
    /\ ~BitTest(op.value, CTRL_RESET)

\* C27: a START that ends in ERR leaves the FIFO as it was; k < WINDOW_LEN
\* words, a failed START, WINDOW_LEN - k more words and a second START end
\* with DONE and the results of the frame of all those words in send order.
C27_FifoAccumulates ==
    /\ (StartOnly /\ raised = "none" /\ regs[STATUS] = STS_ERR) =>
         stream_buf = pre.stream_buf
    /\ hpc = "acc_failed" =>
         /\ regs[STATUS] = STS_ERR
         /\ stream_buf = masks_out
    /\ hpc = "acc_resent" => stream_buf = masks_out
    /\ hpc = "acc_done" => Recovered

\* one word, a failed START, a different word and a second START have given
\* DONE with a class count of the frame of both words
C27_Witness ==
    /\ hpc = "acc_done"
    /\ masks_out = <<4099, 2>>
    /\ pre.stream_buf = <<4099, 2>>
    /\ regs[WINDOW_LEN] = 2
    /\ regs[STATUS] = STS_DONE
    /\ regs[COUNT0] + regs[COUNT1] + regs[COUNT2] > 0
    /\ stream_buf = <<>>

\* --------------------------- specification: calls of infer_from_masks
\* a driver as its constructor leaves it, for window_len 1 or 2
InitDriver ==
    /\ \E d \in ExportsDirs, wl \in {1, 2} :
         \E b \in {driver_init(d, wl)} :
           /\ regs = b.regs
           /\ stream_buf = b.stream_buf
           /\ W1 = b.W1
           /\ W2 = b.W2
    /\ raised = "none"
    /\ ret = None
    /\ op = NoOp
    /\ pre = [regs |-> regs, stream_buf |-> stream_buf, W1 |-> W1, W2 |-> W2]
    /\ EngIdle
    /\ HostIdle

\* one call of driver.infer_from_masks(masks), returning or raising
InferFromMasks ==
    \E masks \in SeqsUpTo(Words, MaxSend) :
      /\ Len(stream_buf) + Len(masks) <= MaxBuf
      /\ \E r \in {infer_from_masks(Self, masks)} :
           Commit(r.self, r.ret,
                  [name |-> "infer_from_masks", offset |-> 0, value |-> 0,
                   masks |-> masks])

SpecDriver == InitDriver /\ [][InferFromMasks]_vars

\* ---------------------------------------------------------------- C28
DriverCalled == op.name = "infer_from_masks"

\* the InferenceResult of the frame
InferenceResultOf(frame) ==
    Bind(ResultOfFrame(frame), LAMBDA res :
      [pred_class |-> res.cls,
       counts |-> <<res.counts[0], res.counts[1], res.counts[2]>>,
       conf |-> [num |-> Clip(RoundHalfEven(res.conf.num * 32768,
                                            res.conf.den), 0, 32767),
                 den |-> 32768]])

\* C28: whatever calls came before, the result a call of infer_from_masks
\* returns is that of the masks passed to this call, and the backend FIFO
\* is empty when the call returns or raises.
C28_CallsIndependent ==
    DriverCalled =>
        /\ stream_buf = <<>>
        /\ raised = "none" =>
             /\ Len(op.masks) >= regs[WINDOW_LEN]
             /\ ret = InferenceResultOf(SubSeq(op.masks, 1, regs[WINDOW_LEN]))

\* the part the code keeps: a call that finds the FIFO empty and passes
\* exactly WINDOW_LEN masks returns their result and leaves the FIFO empty
C28_ExactFrameOnEmptyFifo ==
    (/\ DriverCalled
     /\ pre.stream_buf = <<>>
     /\ Len(op.masks) = regs[WINDOW_LEN]) =>
        /\ raised = "none"
        /\ stream_buf = <<>>
        /\ ret = InferenceResultOf(op.masks)

\* a call that passed two masks has returned the result of a frame that
\* starts with the word an earlier call left behind
C28_StaleWordUsed ==
    /\ DriverCalled
    /\ raised = "none"
    /\ regs[WINDOW_LEN] = 2
    /\ Len(pre.stream_buf) = 1
    /\ Len(op.masks) = 2
    /\ stream_buf = <<op.masks[2]>>
    /\ ret = InferenceResultOf(<<pre.stream_buf[1], op.masks[1]>>)
    /\ ret # InferenceResultOf(op.masks)

\* a call has raised RuntimeError and left its word in the FIFO
C28_RaisedWithWordLeft ==
    /\ DriverCalled
    /\ raised = "RuntimeError"
    /\ pre.stream_buf = <<>>
    /\ stream_buf = op.masks
    /\ Len(stream_buf) = 1

\* ---------------------------------------------------------------- C29
PositiveThresholds == params.th_h >= 1 /\ params.th_o >= 1

\* C29: with thresholds >= 1, after every timestep of snn_infer_int each
\* stored hidden potential is strictly below th_h and each stored output
\* potential is strictly below th_o.
C29_StoredBelowThreshold ==
    (pc \in {"loop", "done"} /\ PositiveThresholds) =>
        /\ \A n \in 0 .. (params.n_hidden - 1) : Vh[n] < params.th_h
        /\ \A c \in 0 .. (params.n_out - 1) : Vo[c] < params.th_o

\* after a timestep a hidden and an output neuron that reached their
\* thresholds hold 0, and a hidden neuron holds a positive potential below
\* its threshold
C29_Witness ==
    /\ InTimestep
    /\ PositiveThresholds
    /\ \E n \in 0 .. 1 : locals.Vh_new[n] >= params.th_h /\ Vh[n] = 0
    /\ \E c \in 0 .. 2 : locals.Vo_new[c] >= params.th_o /\ Vo[c] = 0
    /\ \E n \in 0 .. 1 : Vh[n] > 0 /\ Vh[n] < params.th_h

\* with a threshold of 0 a stored potential is not below it
C29_ZeroThresholdReached ==
    /\ InTimestep
    /\ params.th_h = 0
    /\ \E n \in 0 .. 1 : Vh[n] >= params.th_h

\* ---------------------------------------------------------------- C30
\* the last call was a CONTROL write with RESET set
ResetWritten ==
    /\ op.name = "write_reg"
    /\ op.offset = CONTROL
    /\ BitTest(op.value, CTRL_RESET)

ConfigRegs == {WINDOW_LEN, N_IN, N_HIDDEN, N_OUT}

\* C30: a reset leaves WINDOW_LEN, N_IN, N_HIDDEN, N_OUT and the loaded
\* weights as they were; the WINDOW_LEN the driver's constructor writes
\* before its reset is the one the backend holds afterwards, and a START
\* that completes has consumed exactly WINDOW_LEN words.
C30_ResetKeepsConfig ==
    /\ (ResetWritten /\ raised = "none") =>
         /\ \A r \in ConfigRegs : regs[r] = pre.regs[r]
         /\ W1 = pre.W1
         /\ W2 = pre.W2
    /\ \A d \in ExportsDirs, wl \in WindowLens :
         /\ driver_init(d, wl).regs[WINDOW_LEN] = wl
         /\ driver_init(d, wl).W1 = load_exports(Self, d).W1
    /\ (StartOnly /\ raised = "none" /\ regs[STATUS] = STS_DONE) =>
         /\ regs[WINDOW_LEN] = pre.regs[WINDOW_LEN]
         /\ Len(pre.stream_buf) - Len(stream_buf) = regs[WINDOW_LEN]

\* a reset found a frame length of 3 written by the host, weights loaded
\* and the results of an inference, and left the length and the weights
C30_Witness ==
    /\ ResetWritten
    /\ op.value = CTRL_RESET
    /\ pre.regs[WINDOW_LEN] = 3
    /\ pre.W1 # None
    /\ pre.regs[STATUS] = STS_DONE
    /\ regs[STATUS] = 0
    /\ regs[WINDOW_LEN] = 3
    /\ W1 = pre.W1

\* --------------- scripts/gen_snn_test_vectors.py: the reference sizes
\* the reference configuration with one timestep more
RefParams_longer ==
    [n_in |-> 12, n_hidden |-> 32, n_out |-> 3, window_len |-> 11,
     leak_h_shift |-> 4, leak_o_shift |-> 4, th_h |-> 64, th_o |-> 64]

\* IntSNNParams as declared: the reference configuration
RefParams ==
    [n_in |-> 12, n_hidden |-> 32, n_out |-> 3, window_len |-> 10,
     leak_h_shift |-> 4, leak_o_shift |-> 4, th_h |-> 64, th_o |-> 64]

\* a neuron of the hidden layer sums up to n_in weights per timestep, one
\* of the output layer up to n_hidden
RefLayers ==
    {[fan_in |-> RefParams.n_in, shift |-> RefParams.leak_h_shift,
      th |-> RefParams.th_h],
     [fan_in |-> RefParams.n_hidden, shift |-> RefParams.leak_o_shift,
      th |-> RefParams.th_o]}

\* int8 weights summed in a timestep: the two extremes and a small one
RefWeights == {-128, 1, 127}

\* how many inputs of a neuron are active in a timestep: none or all
RefActive(fan_in) == {0, fan_in}

\* lines 88-91, 124-128: k additions of the weight w, each through int16
RECURSIVE narrowed_sum(_, _)
narrowed_sum(w, k) ==
    IF k = 0 THEN 0 ELSE Int16(narrowed_sum(w, k - 1) + w)

\* one timestep of one neuron in both engines: V through int16 as in
\* snn_infer_int (its int32 intermediates kept beside it), V32 in int32 as
\* in snn_infer_events
ref_timestep(st, layer, w, k) ==
    Bind(asr16(st.V, layer.shift), LAMBDA lv :
    Bind(leak_diff32(st.V, lv), LAMBDA leaked32 :
    Bind(Int16(leaked32) + narrowed_sum(w, k), LAMBDA new32 :
    Bind(st.V32 - (st.V32 \div Pow2(layer.shift)) + k * w, LAMBDA e32 :
      [t |-> st.t + 1,
       I |-> narrowed_sum(w, k),
       I32 |-> k * w,
       leaked32 |-> leaked32,
       new32 |-> new32,
       spike |-> fire(Int16(new32), layer.th),
       V |-> hard_reset(fire(Int16(new32), layer.th), Int16(new32)),
       spike32 |-> IF e32 >= layer.th THEN 1 ELSE 0,
       V32 |-> IF e32 >= layer.th THEN 0 ELSE e32,
       cnt |-> st.cnt + fire(Int16(new32), layer.th),
       cnt32 |-> st.cnt32 + (IF e32 >= layer.th THEN 1 ELSE 0)]))))

\* ------------------ specification: one neuron of the reference sizes
InitReference ==
    /\ EmuIdle
    /\ EngIdle
    /\ MaskIdle
    /\ PollIdle
    /\ hpc = "reference"
    /\ call_args \in RefLayers
    /\ call_ret = [t |-> 0, I |-> 0, I32 |-> 0, leaked32 |-> 0, new32 |-> 0,
                   spike |-> 0, V |-> 0, spike32 |-> 0, V32 |-> 0,
                   cnt |-> 0, cnt32 |-> 0]

\* a pass of "for t in range(T)" for the neuron, T <= window_len
ReferenceTimestep ==
    /\ hpc = "reference"
    /\ call_ret.t < RefParams.window_len
    /\ \E w \in RefWeights, k \in RefActive(call_args.fan_in) :
         call_ret' = ref_timestep(call_ret, call_args, w, k)
    /\ UNCHANGED <<call_args, emu_vars, eng_vars, host_vars>>

SpecReference == InitReference /\ [][ReferenceTimestep]_vars

\* ---------------------------------------------------------------- C25
\* C25: in the reference configuration no weighted input, leaked value or
\* integrated potential leaves the signed 16-bit range, so that the
\* narrowing of snn_infer_int never wraps and each of its neurons holds the
\* potential, fires and counts as the same neuron of snn_infer_events.
C25_ReferenceNeverWraps ==
    hpc = "reference" =>
        /\ call_ret.I32 \in Int16Range
        /\ call_ret.I = call_ret.I32
        /\ call_ret.leaked32 \in Int16Range
        /\ call_ret.new32 \in Int16Range
        /\ call_ret.V = call_ret.V32
        /\ call_ret.spike = call_ret.spike32
        /\ call_ret.cnt = call_ret.cnt32

\* an output neuron driven by 32 spikes of weight -128 in each of the ten
\* timesteps: the lowest potential of the configuration
C25_Witness ==
    /\ hpc = "reference"
    /\ call_args.fan_in = 32
    /\ call_ret.t = 10
    /\ call_ret.I32 = -4096
    /\ call_ret.V = -31163
    /\ call_ret.V32 = -31163

====
